---- MODULE Spec2Model ----
(***************************************************************************)
(* A model of base16-theme-switcher: the ThemeSwitcherBuilder and the      *)
(* ThemeSwitcher of app.py, over the theme collection of themes.py and the *)
(* root configuration mapping of config_structures.py.                     *)
(*                                                                         *)
(* Spec runs the application. SpecNameMap, SpecTheme and SpecPath run one  *)
(* Base16ThemeNameMap, one Base16Theme and one LazilySaveablePath on their *)
(* own, SpecConfig and SpecRoot a RootConfigMapping with and without       *)
(* sections, SpecDiscover and SpecPlugins the discovery and the activation *)
(* of plugins (plugin_loading.py), each with the variables of the other    *)
(* components left idle.                                                   *)
(*                                                                         *)
(* Python values are modelled as follows.                                  *)
(*   - a string is a sequence of character codes, compared as Python       *)
(*     compares strings (lexicographically);                               *)
(*   - an optional value is a sequence of length at most one: <<>> is a    *)
(*     missing value, <<v>> is the value v;                                *)
(*   - an object is a record whose mro field lists, class by class, the    *)
(*     attribute names found in the __dict__ of the classes of its type;   *)
(*   - a dict is a function whose DOMAIN is its key set;                   *)
(*   - an instance is a record whose DOMAIN is the set of its attributes,  *)
(*     so that reading an attribute the instance was never given is an     *)
(*     AttributeError.                                                     *)
(***************************************************************************)
EXTENDS Integers, Sequences, FiniteSets, TLC

\* Bound of the model: the longest applier list.
MaxAppliers == 2

VARIABLES
    disk,        \* the configuration file: [exists, data]
    config,      \* RootConfigMapping._data, shared by builder and switcher
    themes,      \* the Base16ThemeNameMap handed to builder and switcher
    builder,     \* optional ThemeSwitcherBuilder instance
    b_exc,       \* exception raised by the last builder operation
    b_ret,       \* optional value returned by the last build()
    b_op,        \* the last builder operation and its argument
    b_added,     \* the appliers add_theme_applier has accepted, in order
    switcher,    \* optional ThemeSwitcher instance
    s_exc,       \* exception raised by the last ThemeSwitcher(...) call
    pc,          \* position of the running switcher operation
    op,          \* the switcher operation that is running or ran last
    args,        \* command_args of main: [reload, theme]
    theme_name,  \* optional: the theme_name local of _apply / the setter
    theme,       \* optional: the theme local of _apply
    idx,         \* position of the for loop of _apply
    calls,       \* calls made by the running (or last) switcher operation
    exc,         \* exception that ended the last switcher operation
    old          \* config and disk when the operation was called

VARIABLES
    nm,          \* the _themes dict of the Base16ThemeNameMap in use
    nm_op,       \* the last operation on a name map and its argument
    nm_exc,      \* exception raised by that operation
    nm_ret,      \* optional collection a constructor returned
    th_file,     \* the lines of the theme file
    th,          \* optional Base16Theme instance of that file
    th_reads,    \* number of times the theme file has been read
    th_op,       \* the last operation on the theme and its argument
    th_exc,      \* exception raised by that operation and its descriptor
    th_ret,      \* optional value that operation returned
    ps_file,     \* the file of a LazilySaveablePath: [exists, data]
    ps_op,       \* the last operation on the path and its arguments
    ps_raised,   \* exception raised inside the with block of the operation
    ps_ctx,      \* exception that left the with block
    ps_exc,      \* exception that left the operation
    ps_ret,      \* optional value the operation returned
    ps_writes,   \* number of _do_write calls the operation made
    cf_heap,     \* the dicts of the configuration data, by identity
    cf_views,    \* the ConfigMapping views __getitem__ has returned
    cf_file,     \* the file of the source of the root: [exists, data]
    cf_op,       \* the last operation on the configuration
    cf_exc,      \* exception that left the operation
    cf_msg,      \* message of that exception
    cf_ret,      \* value the operation returned
    cf_writes,   \* number of _do_write calls the operation made
    cf_was_set,  \* an entry has been set since the root was loaded
    pl_modules,  \* the module names pkgutil.iter_modules yields, in order
    pl_outcome,  \* what importing each of these modules does
    pl_config,   \* the 'plugins' entry of the configuration of the builder
    pl_behaviour,\* what apply_to of each available plugin does
    pl_op,       \* the last operation of plugin loading and its argument
    pl_exc,      \* exception that left the operation
    pl_msg,      \* message of that exception
    pl_cause,    \* the __cause__ of that exception
    pl_ret,      \* optional map the operation returned
    pl_imports,  \* the names import_module was called with, in order
    pl_calls     \* the plugins whose apply_to was called, in order

nmVars == <<nm, nm_op, nm_exc, nm_ret>>
\* The state of the library objects used on their own.
thVars == <<th_file, th, th_reads, th_op, th_exc, th_ret>>
psVars == <<ps_file, ps_op, ps_raised, ps_ctx, ps_exc, ps_ret, ps_writes>>
cfVars == <<cf_heap, cf_views, cf_file, cf_op, cf_exc, cf_msg, cf_ret,
            cf_writes, cf_was_set>>
plVars == <<pl_modules, pl_outcome, pl_config, pl_behaviour, pl_op, pl_exc,
            pl_msg, pl_cause, pl_ret, pl_imports, pl_calls>>
libVars == <<nmVars, thVars, psVars, cfVars, plVars>>
\* The state of the application: builder, switcher, configuration.
appVars == <<disk, config, themes, builder, b_exc, b_ret, b_op, b_added,
             switcher, s_exc, pc, op, args, theme_name, theme, idx, calls,
             exc, old>>

vars == <<appVars, libVars>>

builderVars == <<builder, b_exc, b_ret, b_op, b_added>>
opVars == <<pc, op, args, theme_name, theme, idx, calls, exc, old>>

-----------------------------------------------------------------------------
\* Strings and names.

\* The names "a", "aa" and "b" as character codes.
NameA == <<1>>
NameAA == <<1, 1>>
NameB == <<2>>

\* The names of the theme files there are, and the names a caller may ask
\* for: "b" is the name of no theme.
ThemeNames == {NameA, NameAA}
AllNames == ThemeNames \cup {NameB}

RECURSIVE StrLess(_, _)
\* Python's a < b on strings.
StrLess(a, b) ==
    IF a = <<>> THEN b # <<>>
    ELSE IF b = <<>> THEN FALSE
    ELSE IF a[1] # b[1] THEN a[1] < b[1]
    ELSE StrLess(Tail(a), Tail(b))

Some(v) == <<v>>
None == <<>>

-----------------------------------------------------------------------------
\* Python objects handed to the builder and the switcher.

Obj(id, mro) == [id |-> id, mro |-> mro]

\* The None object.
PyNone == Obj(0, <<{}>>)
\* A plain object: neither callable nor an applier.
PlainObject == Obj(1, <<{}>>)
\* Two functions (callable).
Function1 == Obj(2, <<{"__call__"}>>)
Function2 == Obj(3, <<{"__call__"}>>)
\* An applier defining apply in its own class, and one inheriting it.
Applier1 == Obj(4, <<{"apply"}, {}>>)
Applier2 == Obj(5, <<{}, {"apply"}, {}>>)

\* Values assigned to the prompt of a builder, values handed to
\* add_theme_applier, and the appliers a ThemeSwitcher is constructed with.
PromptValues == {PyNone, PlainObject, Function1, Function2}
ApplierValues == {PlainObject, Function1, Applier1, Applier2}
Appliers == {Applier1, Applier2}
\* Prompts a ThemeSwitcher is constructed with: none, one that cannot be
\* called, one that can.
SwitcherPrompts == {PyNone, PlainObject, Function1}

\* callable(value)
callable(value) == \E i \in 1..Len(value.mro) : "__call__" \in value.mro[i]

\* isinstance(C, ThemeApplier), decided by ThemeApplier.__subclasshook__
subclasshook(C) == \E i \in 1..Len(C.mro) : "apply" \in C.mro[i]

\* Sequences over S of length at most n.
SeqUpTo(S, n) == UNION {[1..k -> S] : k \in 0..n}

-----------------------------------------------------------------------------
\* themes.py: Base16Theme and Base16ThemeNameMap.

\* Base16Theme(path): the name is the stem of the file name.
Base16Theme(path) ==
    [path |-> path, name |-> path.stem, _definitions |-> [n \in {} |-> <<>>]]

ThemePaths == {[dir |-> 1, stem |-> n] : n \in ThemeNames}

\* A Base16ThemeNameMap is its _themes dict, kept as the sequence of its
\* values in insertion order; the key of a value is its name.
NameMapKeys(m) == {m[i].name : i \in 1..Len(m)}

\* Base16ThemeNameMap.__getitem__ (for a name that is a key)
NameMapGetItem(m, name) == m[CHOOSE i \in 1..Len(m) : m[i].name = name]

\* Base16ThemeNameMap.__bool__
NameMapBool(m) == Len(m) > 0

\* Insertion of t into a name-sorted list, after the elements that are not
\* greater (sorted() is stable).
InsertByName(t, s) ==
    LET k == Cardinality({i \in 1..Len(s) : ~StrLess(t.name, s[i].name)})
    IN SubSeq(s, 1, k) \o <<t>> \o SubSeq(s, k + 1, Len(s))

\* sorted_by_name without the sort: the values in insertion order.
sorted_by_name_unsorted(m) == m

RECURSIVE sorted_by_name(_)
\* Base16ThemeNameMap.sorted_by_name
sorted_by_name(m) ==
    IF m = <<>> THEN <<>>
    ELSE InsertByName(m[Len(m)], sorted_by_name(SubSeq(m, 1, Len(m) - 1)))

\* The collections the model starts from: any of the themes there are, with
\* distinct names, in any insertion order.
NameMaps ==
    {m \in SeqUpTo({Base16Theme(p) : p \in ThemePaths},
                   Cardinality(ThemePaths)) :
        \A i, j \in 1..Len(m) : m[i].name = m[j].name => i = j}

-----------------------------------------------------------------------------
\* config_structures.py: the root mapping and its file.

EmptyDict == [k \in {} |-> None]

\* dict[key] = value
DictSet(d, key, value) ==
    [k \in DOMAIN d \cup {key} |-> IF k = key THEN value ELSE d[k]]

\* Mapping.get over ConfigMapping.__getitem__: the entry, or the default
\* when __getitem__ raises ConfigKeyError.
ConfigGet(d, key, default) == IF key \in DOMAIN d THEN d[key] ELSE default

\* bool(dict)
DictBool(d) == DOMAIN d # {}

\* Contents a configuration file may have before the program runs.
FileData == {EmptyDict} \cup {DictSet(EmptyDict, "theme", n) : n \in AllNames}

\* LazilySaveablePath.read(fallback_to_empty=True) of RootConfigMapping.__init__
ReadOrEmpty(d) == IF d.exists THEN d.data ELSE EmptyDict

-----------------------------------------------------------------------------
\* themes.py: Base16ThemeNameMap on its own, with the keys of its dict.

\* The longest sequence of themes handed to a constructor.
MaxInput == 3

\* The theme files there are in two directories: two files of different
\* directories may have the same name.
ThemeFiles == {[dir |-> d, stem |-> n] : d \in {1, 2}, n \in ThemeNames}
Themes == {Base16Theme(p) : p \in ThemeFiles}

\* A dict in insertion order: a sequence of [key, value] with distinct keys.
DictKeys(d) == {d[i].key : i \in 1..Len(d)}

\* d[k] = v on such a dict: the value of an existing key is replaced, a new
\* key goes to the end.
DictSetItem(d, k, v) ==
    IF k \in DictKeys(d)
    THEN [i \in 1..Len(d) |->
              IF d[i].key = k THEN [key |-> k, value |-> v] ELSE d[i]]
    ELSE Append(d, [key |-> k, value |-> v])

\* add without the test for a name that is present.
add_overwrite(self, t) ==
    [exc |-> "none", themes |-> DictSetItem(self, t.name, t)]

\* Base16ThemeNameMap.add on the _themes dict self: the exception raised and
\* the dict left behind.
add(self, t) ==
    LET name == t.name
    IN IF name \in DictKeys(self)
       THEN [exc |-> "DuplicateThemeNameError", themes |-> self]
       ELSE [exc |-> "none", themes |-> DictSetItem(self, name, t)]

RECURSIVE NameMapInitLoop(_, _)
\* The for loop of Base16ThemeNameMap.__init__: the first exception of add
\* ends it.
NameMapInitLoop(self, ts) ==
    IF ts = <<>> THEN [exc |-> "none", themes |-> self]
    ELSE LET r == add(self, Head(ts))
         IN IF r.exc # "none" THEN r
            ELSE NameMapInitLoop(r.themes, Tail(ts))

\* Base16ThemeNameMap(themes): the exception raised and the optional object
\* constructed.
NameMapInit(ts) ==
    LET r == NameMapInitLoop(<<>>, ts)
    IN [exc |-> r.exc,
        obj |-> IF r.exc = "none" THEN Some(r.themes) ELSE None]

RECURSIVE FromUniqueLoop_last(_, _)
\* The loop of from_unique with a handler that stores the duplicate.
FromUniqueLoop_last(unique_themes, ts) ==
    IF ts = <<>> THEN unique_themes
    ELSE FromUniqueLoop_last(
             DictSetItem(unique_themes, Head(ts).name, Head(ts)), Tail(ts))

RECURSIVE FromUniqueLoop(_, _)
\* The for loop of from_unique: DuplicateThemeNameError is caught and
\* logged, and the loop goes on.
FromUniqueLoop(unique_themes, ts) ==
    IF ts = <<>> THEN unique_themes
    ELSE LET r == add(unique_themes, Head(ts))
         IN IF r.exc = "DuplicateThemeNameError"
            THEN FromUniqueLoop(unique_themes, Tail(ts))
            ELSE FromUniqueLoop(r.themes, Tail(ts))

\* Base16ThemeNameMap.from_unique(themes)
from_unique(ts) ==
    [exc |-> "none",
     obj |-> Some(FromUniqueLoop(NameMapInit(<<>>).obj[1], ts))]

\* No name map is in use: the state of these variables in the runs of the
\* other components.
NameMapIdle ==
    /\ nm = <<>>
    /\ nm_op = [name |-> "none", arg |-> <<>>]
    /\ nm_exc = "none"
    /\ nm_ret = None

\* collection.add(theme) on the collection in use.
NameMapAdd(t) ==
    /\ LET r == add(nm, t)
       IN /\ nm' = r.themes
          /\ nm_exc' = r.exc
    /\ nm_op' = [name |-> "add", arg |-> <<t>>]
    /\ nm_ret' = None
    /\ UNCHANGED <<appVars, plVars, cfVars, thVars, psVars>>

\* Base16ThemeNameMap(ts): the collection constructed is the one in use
\* from then on.
NameMapNew(ts) ==
    /\ LET r == NameMapInit(ts)
       IN /\ nm_exc' = r.exc
          /\ nm_ret' = r.obj
          /\ nm' = IF r.obj # None THEN r.obj[1] ELSE nm
    /\ nm_op' = [name |-> "init", arg |-> ts]
    /\ UNCHANGED <<appVars, plVars, cfVars, thVars, psVars>>

\* Base16ThemeNameMap.from_unique(ts), likewise.
NameMapFromUnique(ts) ==
    /\ LET r == from_unique(ts)
       IN /\ nm_exc' = r.exc
          /\ nm_ret' = r.obj
          /\ nm' = IF r.obj # None THEN r.obj[1] ELSE nm
    /\ nm_op' = [name |-> "from_unique", arg |-> ts]
    /\ UNCHANGED <<appVars, plVars, cfVars, thVars, psVars>>

-----------------------------------------------------------------------------
\* themes.py: Base16Theme and its file.

\* The longest theme file, in lines, and the most reads of it a run counts.
MaxLines == 2
MaxReads == 2

\* string.digits and string.ascii_uppercase
digits == <<"0", "1", "2", "3", "4", "5", "6", "7", "8", "9">>
ascii_uppercase ==
    <<"A", "B", "C", "D", "E", "F", "G", "H", "I", "J", "K", "L", "M", "N",
      "O", "P", "Q", "R", "S", "T", "U", "V", "W", "X", "Y", "Z">>

\* Base16Theme._EXPECTED_COLORS
EXPECTED_COLORS ==
    LET c == SubSeq(digits \o ascii_uppercase, 1, 16)
    IN {"base0" \o c[i] : i \in 1..Len(c)}

\* Values of declarations, as character codes: "#ABCDEF", "#abc09f",
\* "#ABCDEF12", "#ABCDE" and "#ABCDEG".
ColorUpper == <<35, 65, 66, 67, 68, 69, 70>>
ColorLower == <<35, 97, 98, 99, 48, 57, 102>>
ColorLong == <<35, 65, 66, 67, 68, 69, 70, 49, 50>>
ColorShort == <<35, 65, 66, 67, 68, 69>>
ColorNotHex == <<35, 65, 66, 67, 68, 69, 71>>
FileValues == {ColorUpper, ColorLower, ColorLong, ColorShort, ColorNotHex}

\* The character class [0-9a-fA-F]
HexDigit(c) == c \in (48..57) \cup (97..102) \cup (65..70)

\* _VAL_PATTERN.match(value): the pattern \#[0-9a-fA-F]{6} matches at the
\* start of the value.
VAL_PATTERN_match(value) ==
    /\ Len(value) >= 7
    /\ value[1] = 35
    /\ \A i \in 2..7 : HexDigit(value[i])

\* A line of a theme file is its first word, a name and a value: a
\* declaration starts with #define, a comment with !.
FileLines ==
    {[kw |-> "#define", name |-> n, value |-> v] :
         n \in {"base00", "base10"}, v \in FileValues}
    \cup {[kw |-> "!", name |-> "base00", value |-> ColorUpper]}

\* _DEF_PATTERN.findall(text): the (name, value) pairs of the declarations,
\* in the order of the file.
DEF_PATTERN_findall(text) ==
    LET IsDef(l) == l.kw = "#define"
        defs == SelectSeq(text, IsDef)
    IN [i \in 1..Len(defs) |-> <<defs[i].name, defs[i].value>>]

\* dict(pairs): the last pair of a key gives its value.
DictOfPairs(pairs) ==
    [k \in {pairs[i][1] : i \in 1..Len(pairs)} |->
        LET last == CHOOSE i \in 1..Len(pairs) :
                        /\ pairs[i][1] = k
                        /\ \A j \in (i + 1)..Len(pairs) : pairs[j][1] # k
        IN pairs[last][2]]

\* The definitions property of the theme self whose file holds text: the
\* dict it returns and leaves in _definitions, and the number of reads of
\* the file it makes.
definitions(self, text) ==
    IF ~DictBool(self._definitions)
    THEN [value |-> DictOfPairs(DEF_PATTERN_findall(text)), reads |-> 1]
    ELSE [value |-> self._definitions, reads |-> 0]

\* Base16Theme.__getitem__: the exception raised with its descriptor, the
\* optional value returned, the _definitions left behind and the number of
\* reads of the file.
getitem(self, text, name) ==
    IF name \notin EXPECTED_COLORS
    THEN [exc |-> "KeyError", descr |-> "", ret |-> None,
          defs |-> self._definitions, reads |-> 0]
    ELSE LET d == definitions(self, text)
         IN IF name \notin DOMAIN d.value
            THEN [exc |-> "InvalidThemeError", descr |-> "missing",
                  ret |-> None, defs |-> d.value, reads |-> d.reads]
            ELSE IF ~VAL_PATTERN_match(d.value[name])
            THEN [exc |-> "InvalidThemeError", descr |-> "invalid",
                  ret |-> None, defs |-> d.value, reads |-> d.reads]
            ELSE [exc |-> "none", descr |-> "",
                  ret |-> Some(d.value[name]), defs |-> d.value,
                  reads |-> d.reads]

\* The path of the theme file.
ThemeFile == [dir |-> 1, stem |-> NameA]

\* No theme is in use: the state of these variables in the runs of the
\* other components.
ThemeIdle ==
    /\ th_file = <<>>
    /\ th = None
    /\ th_reads = 0
    /\ th_op = [name |-> "none", arg |-> ""]
    /\ th_exc = [type |-> "none", descr |-> ""]
    /\ th_ret = None

\* Base16Theme(path), called directly.
ThemeNew ==
    /\ th = None
    /\ th' = Some(Base16Theme(ThemeFile))
    /\ th_op' = [name |-> "init", arg |-> ""]
    /\ th_exc' = [type |-> "none", descr |-> ""]
    /\ th_ret' = None
    /\ UNCHANGED <<appVars, plVars, cfVars, nmVars, psVars, th_file, th_reads>>

\* Base16Theme.find_all_in(path): the theme of the file rglob finds.
find_all_in ==
    /\ th = None
    /\ th' = Some(Base16Theme(ThemeFile))
    /\ th_op' = [name |-> "find_all_in", arg |-> ""]
    /\ th_exc' = [type |-> "none", descr |-> ""]
    /\ th_ret' = None
    /\ UNCHANGED <<appVars, plVars, cfVars, nmVars, psVars, th_file, th_reads>>

\* theme[name]
ThemeGetItem(name) ==
    /\ th # None
    /\ LET r == getitem(th[1], th_file, name)
       IN /\ th_reads + r.reads <= MaxReads
          /\ th_reads' = th_reads + r.reads
          /\ th' = Some([th[1] EXCEPT !._definitions = r.defs])
          /\ th_exc' = [type |-> r.exc, descr |-> r.descr]
          /\ th_ret' = r.ret
    /\ th_op' = [name |-> "getitem", arg |-> name]
    /\ UNCHANGED <<appVars, plVars, cfVars, nmVars, psVars, th_file>>

-----------------------------------------------------------------------------
\* config_structures.py: LazilySaveablePath on its own.

\* No path is in use: the state of these variables in the runs of the
\* other components.
PathIdle ==
    /\ ps_file = [exists |-> FALSE, data |-> EmptyDict]
    /\ ps_op = [name |-> "none", data |-> EmptyDict, fallback |-> FALSE,
                existed |-> FALSE]
    /\ ps_raised = "none"
    /\ ps_ctx = "none"
    /\ ps_exc = "none"
    /\ ps_ret = None
    /\ ps_writes = 0

-----------------------------------------------------------------------------
\* config_structures.py: ConfigMapping and RootConfigMapping over nested
\* data.

\* A dict of the data is a function from its keys to its values; a value
\* is a scalar or the identity of a nested dict, so that two references to
\* one dict are told from two equal dicts. The identity of a dict is its
\* position in the heap, the root dict comes first.
Scalar(x) == [kind |-> "scalar", val |-> x]
Ref(n) == [kind |-> "dict", val |-> n]

\* A ConfigMapping: the dict it wraps and its ancestors.
View(n, ancestors) == [data |-> n, ancestors |-> ancestors]

\* str(source), the first ancestor of a RootConfigMapping, and the root
\* mapping.
RootName == "root"
RootView == View(1, <<RootName>>)

\* What an operation returns: nothing, a scalar or a view.
NoView == View(0, <<>>)
RetNone == [kind |-> "none", val |-> 0, view |-> NoView]
RetScalar(x) == [kind |-> "scalar", val |-> x, view |-> NoView]
RetView(v) == [kind |-> "view", val |-> 0, view |-> v]

\* No configuration is in use: the state of these variables in the runs
\* of the other components.
ConfigIdle ==
    /\ cf_heap = <<EmptyDict>>
    /\ cf_views = {}
    /\ cf_file = [exists |-> FALSE, data |-> EmptyDict]
    /\ cf_op = [name |-> "none", view |-> NoView, keys |-> <<>>, val |-> 0]
    /\ cf_exc = "none"
    /\ cf_msg = ""
    /\ cf_ret = RetNone
    /\ cf_writes = 0
    /\ cf_was_set = FALSE

-----------------------------------------------------------------------------
\* plugin_loading.py

\* A message: a format string and the name it is formatted with.
Message(text, name) == [text |-> text, name |-> name]
NoMessage == Message("", <<>>)

\* Plugin loading is not in use: the state of these variables in the runs
\* of the other components.
PluginsIdle ==
    /\ pl_modules = <<>>
    /\ pl_outcome = <<>>
    /\ pl_config = [kind |-> "missing", names |-> <<>>]
    /\ pl_behaviour = <<>>
    /\ pl_op = [name |-> "none", prefix |-> <<>>]
    /\ pl_exc = "none"
    /\ pl_msg = NoMessage
    /\ pl_cause = "none"
    /\ pl_ret = None
    /\ pl_imports = <<>>
    /\ pl_calls = <<>>

\* The library objects are not in use.
LibIdle ==
    /\ NameMapIdle
    /\ ThemeIdle
    /\ PathIdle
    /\ ConfigIdle
    /\ PluginsIdle

-----------------------------------------------------------------------------
Init ==
    /\ disk \in {[exists |-> FALSE, data |-> EmptyDict]}
                \cup {[exists |-> TRUE, data |-> f] : f \in FileData}
    /\ config = ReadOrEmpty(disk)
    /\ themes \in NameMaps
    /\ builder = None
    /\ b_exc = "none"
    /\ b_ret = None
    /\ b_op = [name |-> "none", arg |-> PyNone]
    /\ b_added = <<>>
    /\ switcher = None
    /\ s_exc = "none"
    /\ pc = "idle"
    /\ op = "none"
    /\ args = [reload |-> FALSE, theme |-> None]
    /\ theme_name = None
    /\ theme = None
    /\ idx = 0
    /\ calls = <<>>
    /\ exc = "none"
    /\ old = [config |-> config, disk |-> disk]
    /\ LibIdle

\* No builder, no switcher and no configuration file: the state of the
\* application in the runs of the library objects on their own.
AppIdle ==
    /\ disk = [exists |-> FALSE, data |-> EmptyDict]
    /\ config = ReadOrEmpty(disk)
    /\ themes = <<>>
    /\ builder = None
    /\ b_exc = "none"
    /\ b_ret = None
    /\ b_op = [name |-> "none", arg |-> PyNone]
    /\ b_added = <<>>
    /\ switcher = None
    /\ s_exc = "none"
    /\ pc = "idle"
    /\ op = "none"
    /\ args = [reload |-> FALSE, theme |-> None]
    /\ theme_name = None
    /\ theme = None
    /\ idx = 0
    /\ calls = <<>>
    /\ exc = "none"
    /\ old = [config |-> config, disk |-> disk]

-----------------------------------------------------------------------------
\* app.py: ThemeSwitcher.__init__, used directly and by build().

\* The instance ThemeSwitcher.__init__ leaves behind, and the exception it
\* raises: cfg is an optional config (None is the missing one).
ThemeSwitcherInit(cfg, thm, appliers, prompt) ==
    IF cfg = None THEN [exc |-> "SetupError", obj |-> None]
    ELSE IF ~NameMapBool(thm) THEN [exc |-> "SetupError", obj |-> None]
    ELSE IF prompt = PyNone THEN [exc |-> "SetupError", obj |-> None]
    ELSE [exc |-> "none",
          obj |-> Some([_config |-> cfg[1], _themes |-> thm,
                        _theme_appliers |-> appliers, _prompt |-> prompt])]

\* ThemeSwitcher(config, themes, theme_appliers, prompt), called directly:
\* a run either assembles its switcher through a builder or constructs it
\* directly, as the tests do.
NewSwitcher(cfg, thm, appliers, prompt) ==
    /\ pc = "idle"
    /\ switcher = None
    /\ builder = None
    /\ LET r == ThemeSwitcherInit(cfg, thm, appliers, prompt)
       IN /\ s_exc' = r.exc
          /\ switcher' = r.obj
    /\ UNCHANGED <<disk, config, themes, libVars, builderVars, opVars>>

-----------------------------------------------------------------------------
\* app.py: ThemeSwitcherBuilder.

\* ThemeSwitcherBuilder.__init__ without the test for an empty collection.
NewBuilder_unchecked(thm) ==
    /\ pc = "idle"
    /\ builder = None
    /\ switcher = None
    /\ b_op' = [name |-> "init", arg |-> PyNone]
    /\ b_exc' = "none"
    /\ builder' = Some([_config |-> "root", _themes |-> thm,
                        _theme_appliers |-> <<>>, _prompt |-> PyNone])
    /\ UNCHANGED <<disk, config, themes, libVars, b_ret, b_added, switcher,
                   s_exc, opVars>>

\* ThemeSwitcherBuilder.__init__
NewBuilder(thm) ==
    /\ pc = "idle"
    /\ builder = None
    /\ switcher = None
    /\ b_op' = [name |-> "init", arg |-> PyNone]
    /\ IF ~NameMapBool(thm)
       THEN /\ b_exc' = "SetupError"
            /\ UNCHANGED builder
       ELSE /\ b_exc' = "none"
            /\ builder' = Some([_config |-> "root", _themes |-> thm,
                                _theme_appliers |-> <<>>,
                                _prompt |-> PyNone])
    /\ UNCHANGED <<disk, config, themes, libVars, b_ret, b_added, switcher,
                   s_exc, opVars>>

\* add_theme_applier without the test for a ThemeApplier.
add_theme_applier_unchecked(theme_applier) ==
    /\ pc = "idle"
    /\ builder # None
    /\ b_op' = [name |-> "add", arg |-> theme_applier]
    /\ LET self == builder[1]
       IN IF "_components" \notin DOMAIN self
          THEN /\ b_exc' = "AttributeError"
               /\ UNCHANGED <<builder, b_added>>
          ELSE /\ Len(self._components) < MaxAppliers
               /\ b_exc' = "none"
               /\ builder' = Some([self EXCEPT !._components =
                                       Append(@, theme_applier)])
               /\ b_added' = Append(b_added, theme_applier)
    /\ UNCHANGED <<disk, config, themes, libVars, b_ret, switcher, s_exc,
                   opVars>>

\* ThemeSwitcherBuilder.add_theme_applier: the list it appends to is the
\* _components attribute.
add_theme_applier(theme_applier) ==
    /\ pc = "idle"
    /\ builder # None
    /\ b_op' = [name |-> "add", arg |-> theme_applier]
    /\ LET self == builder[1]
       IN IF ~subclasshook(theme_applier)
          THEN /\ b_exc' = "TypeError"
               /\ UNCHANGED <<builder, b_added>>
          ELSE IF "_components" \notin DOMAIN self
          THEN /\ b_exc' = "AttributeError"
               /\ UNCHANGED <<builder, b_added>>
          ELSE /\ Len(self._components) < MaxAppliers
               /\ b_exc' = "none"
               /\ builder' = Some([self EXCEPT !._components =
                                       Append(@, theme_applier)])
               /\ b_added' = Append(b_added, theme_applier)
    /\ UNCHANGED <<disk, config, themes, libVars, b_ret, switcher, s_exc,
                   opVars>>

\* The prompt setter without the test for a prompt set before.
set_prompt_overwrite(value) ==
    /\ pc = "idle"
    /\ builder # None
    /\ b_op' = [name |-> "prompt", arg |-> value]
    /\ LET self == builder[1]
       IN IF ~callable(value)
          THEN /\ b_exc' = "TypeError"
               /\ UNCHANGED builder
          ELSE /\ b_exc' = "none"
               /\ builder' = Some([self EXCEPT !._prompt = value])
    /\ UNCHANGED <<disk, config, themes, libVars, b_ret, b_added, switcher,
                   s_exc, opVars>>

\* The prompt setter without the test for a callable.
set_prompt_unchecked(value) ==
    /\ pc = "idle"
    /\ builder # None
    /\ b_op' = [name |-> "prompt", arg |-> value]
    /\ LET self == builder[1]
       IN IF self._prompt # PyNone
          THEN /\ b_exc' = "SetupError"
               /\ UNCHANGED builder
          ELSE /\ b_exc' = "none"
               /\ builder' = Some([self EXCEPT !._prompt = value])
    /\ UNCHANGED <<disk, config, themes, libVars, b_ret, b_added, switcher,
                   s_exc, opVars>>

\* The prompt setter of ThemeSwitcherBuilder.
set_prompt(value) ==
    /\ pc = "idle"
    /\ builder # None
    /\ b_op' = [name |-> "prompt", arg |-> value]
    /\ LET self == builder[1]
       IN IF self._prompt # PyNone
          THEN /\ b_exc' = "SetupError"
               /\ UNCHANGED builder
          ELSE IF ~callable(value)
          THEN /\ b_exc' = "TypeError"
               /\ UNCHANGED builder
          ELSE /\ b_exc' = "none"
               /\ builder' = Some([self EXCEPT !._prompt = value])
    /\ UNCHANGED <<disk, config, themes, libVars, b_ret, b_added, switcher,
                   s_exc, opVars>>

\* ThemeSwitcherBuilder.build: the applier list it hands over is the
\* _components attribute.
build ==
    /\ pc = "idle"
    /\ builder # None
    /\ b_op' = [name |-> "build", arg |-> PyNone]
    /\ LET self == builder[1]
       IN IF "_components" \notin DOMAIN self
          THEN /\ b_exc' = "AttributeError"
               /\ b_ret' = None
               /\ UNCHANGED switcher
          ELSE LET r == ThemeSwitcherInit(Some(self._config), self._themes,
                                          self._components, self._prompt)
               IN /\ b_exc' = r.exc
                  /\ b_ret' = r.obj
                  /\ switcher' = IF r.exc = "none" THEN r.obj ELSE switcher
    /\ UNCHANGED <<disk, config, themes, libVars, builder, b_added, s_exc,
                   opVars>>

-----------------------------------------------------------------------------
\* app.py: the operations of ThemeSwitcher, one action per step.

\* A call made by an operation: what was called, on which object (its id,
\* 0 when there is none), with which name and which theme, and whether the
\* call returned (ok) or raised.
Call(ev, who, name, thm, ok) ==
    [ev |-> ev, who |-> who, name |-> name, theme |-> thm, ok |-> ok]

\* The current_theme_name getter.
current_theme_name(self) ==
    ConfigGet(config, "theme", sorted_by_name(self._themes)[1].name)

\* What every operation does when it is called.
Enter(name) ==
    /\ pc = "idle"
    /\ switcher # None
    /\ op' = name
    /\ calls' = <<>>
    /\ exc' = "none"
    /\ theme' = None
    /\ idx' = 0
    /\ old' = [config |-> config, disk |-> disk]

\* An exception leaves the operation.
Raise(e) ==
    /\ exc' = e
    /\ pc' = "done"

\* switcher.current_theme_name = name
CallSetter(name) ==
    /\ Enter("setter")
    /\ theme_name' = Some(name)
    /\ pc' = "lookup"
    /\ UNCHANGED <<disk, config, themes, libVars, builderVars, switcher, s_exc,
                   args>>

\* switcher.reload()
CallReload ==
    /\ Enter("reload")
    /\ theme_name' = None
    /\ pc' = "reload"
    /\ UNCHANGED <<disk, config, themes, libVars, builderVars, switcher, s_exc,
                   args>>

\* switcher.main(command_args)
CallMain(command_args) ==
    /\ Enter("main")
    /\ args' = command_args
    /\ theme_name' = None
    /\ pc' = "main"
    /\ UNCHANGED <<disk, config, themes, libVars, builderVars, switcher,
                   s_exc>>

\* MainBranch with the theme argument tested before the reload flag.
MainBranch_theme_first ==
    /\ pc = "main"
    /\ IF args.theme # None
       THEN /\ pc' = "lookup"
            /\ theme_name' = args.theme
       ELSE IF args.reload
       THEN /\ pc' = "reload"
            /\ UNCHANGED theme_name
       ELSE /\ pc' = "prompt"
            /\ UNCHANGED theme_name
    /\ UNCHANGED <<disk, config, themes, libVars, builderVars, switcher, s_exc,
                   op, args, theme, idx, calls, exc, old>>

\* MainBranch with the prompt asked whether or not a theme was given.
MainBranch_always_prompt ==
    /\ pc = "main"
    /\ IF args.reload
       THEN /\ pc' = "reload"
            /\ UNCHANGED theme_name
       ELSE /\ pc' = "prompt"
            /\ UNCHANGED theme_name
    /\ UNCHANGED <<disk, config, themes, libVars, builderVars, switcher, s_exc,
                   op, args, theme, idx, calls, exc, old>>

\* main: the test of the reload flag and of the theme argument.
MainBranch ==
    /\ pc = "main"
    /\ IF args.reload
       THEN /\ pc' = "reload"
            /\ UNCHANGED theme_name
       ELSE IF args.theme = None
       THEN /\ pc' = "prompt"
            /\ UNCHANGED theme_name
       ELSE /\ pc' = "lookup"
            /\ theme_name' = args.theme
    /\ UNCHANGED <<disk, config, themes, libVars, builderVars, switcher, s_exc,
                   op, args, theme, idx, calls, exc, old>>

\* main: theme = self._prompt(); the prompt returns any name.
MainPrompt ==
    /\ pc = "prompt"
    /\ LET prompt == switcher[1]._prompt
       IN IF ~callable(prompt)
          THEN /\ Raise("TypeError")
               /\ calls' = Append(calls,
                                  Call("prompt", prompt.id, None, None, FALSE))
               /\ UNCHANGED theme_name
          ELSE \E name \in AllNames :
                  /\ theme_name' = Some(name)
                  /\ calls' = Append(calls, Call("prompt", prompt.id,
                                                 Some(name), None, TRUE))
                  /\ pc' = "lookup"
                  /\ UNCHANGED exc
    /\ UNCHANGED <<disk, config, themes, libVars, builderVars, switcher, s_exc,
                   op, args, theme, idx, old>>

\* reload: the first log line and the read of current_theme_name.
ReloadStart ==
    /\ pc = "reload"
    /\ theme_name' = Some(current_theme_name(switcher[1]))
    /\ calls' = Append(calls, Call("log_reloading", 0, None, None, TRUE))
    /\ pc' = "lookup"
    /\ UNCHANGED <<disk, config, themes, libVars, builderVars, switcher, s_exc,
                   op, args, theme, idx, exc, old>>

\* ApplyLookup as self._themes.get(theme_name, <the first theme>).
ApplyLookup_default ==
    /\ pc = "lookup"
    /\ LET self == switcher[1]
           name == theme_name[1]
       IN /\ theme' = IF name \in NameMapKeys(self._themes)
                      THEN Some(NameMapGetItem(self._themes, name))
                      ELSE Some(self._themes[1])
          /\ calls' = Append(calls, Call("lookup", 0, theme_name, None, TRUE))
          /\ pc' = "merge"
          /\ UNCHANGED exc
    /\ UNCHANGED <<disk, config, themes, libVars, builderVars, switcher, s_exc,
                   op, args, theme_name, idx, old>>

\* _apply: theme = self._themes[theme_name]
ApplyLookup ==
    /\ pc = "lookup"
    /\ LET self == switcher[1]
           name == theme_name[1]
       IN IF name \in NameMapKeys(self._themes)
          THEN /\ theme' = Some(NameMapGetItem(self._themes, name))
               /\ calls' = Append(calls,
                                  Call("lookup", 0, theme_name, None, TRUE))
               /\ pc' = "merge"
               /\ UNCHANGED exc
          ELSE /\ Raise("KeyError")
               /\ calls' = Append(calls,
                                  Call("lookup", 0, theme_name, None, FALSE))
               /\ UNCHANGED theme
    /\ UNCHANGED <<disk, config, themes, libVars, builderVars, switcher, s_exc,
                   op, args, theme_name, idx, old>>

\* _apply: subprocess.call('xrdb -merge <theme>'), which returns whatever
\* the command does, or raises OSError when no process can be started.
ApplyMerge ==
    /\ pc = "merge"
    /\ \E ok \in BOOLEAN :
          /\ calls' = Append(calls, Call("merge", 0, None, theme, ok))
          /\ IF ok
             THEN /\ pc' = "appliers"
                  /\ idx' = 1
                  /\ UNCHANGED exc
             ELSE /\ Raise("OSError")
                  /\ UNCHANGED idx
    /\ UNCHANGED <<disk, config, themes, libVars, builderVars, switcher, s_exc,
                   op, args, theme_name, theme, old>>

\* AfterApply with reload() going through the setter.
AfterApply_persist(o, a) == "setitem"

\* Where an operation goes on after _apply has returned.
AfterApply(o, a) ==
    IF o = "setter" \/ (o = "main" /\ ~a.reload) THEN "setitem"
    ELSE "reloaded"

\* ApplyLoop with the appliers called inside a try block that swallows what
\* they raise.
ApplyLoop_swallow ==
    /\ pc = "appliers"
    /\ LET self == switcher[1]
       IN IF idx <= Len(self._theme_appliers)
          THEN \E ok \in BOOLEAN :
                  /\ calls' = Append(calls,
                         Call("apply", self._theme_appliers[idx].id, None,
                              theme, ok))
                  /\ idx' = idx + 1
                  /\ UNCHANGED <<pc, exc>>
          ELSE /\ pc' = AfterApply(op, args)
               /\ UNCHANGED <<idx, calls, exc>>
    /\ UNCHANGED <<disk, config, themes, libVars, builderVars, switcher, s_exc,
                   op, args, theme_name, theme, old>>

\* ApplyLoop over reversed(self._theme_appliers).
ApplyLoop_reversed ==
    /\ pc = "appliers"
    /\ LET self == switcher[1]
           n == Len(self._theme_appliers)
       IN IF idx <= n
          THEN \E ok \in BOOLEAN :
                  /\ calls' = Append(calls,
                         Call("apply", self._theme_appliers[n + 1 - idx].id,
                              None, theme, ok))
                  /\ IF ok
                     THEN /\ idx' = idx + 1
                          /\ UNCHANGED <<pc, exc>>
                     ELSE /\ Raise("ApplierError")
                          /\ UNCHANGED idx
          ELSE /\ pc' = AfterApply(op, args)
               /\ UNCHANGED <<idx, calls, exc>>
    /\ UNCHANGED <<disk, config, themes, libVars, builderVars, switcher, s_exc,
                   op, args, theme_name, theme, old>>

\* _apply: one turn of `for c in self._theme_appliers: c.apply(theme)`;
\* an applier returns or raises.
ApplyLoop ==
    /\ pc = "appliers"
    /\ LET self == switcher[1]
       IN IF idx <= Len(self._theme_appliers)
          THEN \E ok \in BOOLEAN :
                  /\ calls' = Append(calls,
                         Call("apply", self._theme_appliers[idx].id, None,
                              theme, ok))
                  /\ IF ok
                     THEN /\ idx' = idx + 1
                          /\ UNCHANGED <<pc, exc>>
                     ELSE /\ Raise("ApplierError")
                          /\ UNCHANGED idx
          ELSE /\ pc' = AfterApply(op, args)
               /\ UNCHANGED <<idx, calls, exc>>
    /\ UNCHANGED <<disk, config, themes, libVars, builderVars, switcher, s_exc,
                   op, args, theme_name, theme, old>>

\* The setter: self._config['theme'] = theme_name
SetItem ==
    /\ pc = "setitem"
    /\ config' = DictSet(config, "theme", theme_name[1])
    /\ calls' = Append(calls, Call("setitem", 0, theme_name, None, TRUE))
    /\ pc' = "save"
    /\ UNCHANGED <<disk, themes, libVars, builderVars, switcher, s_exc, op,
                   args, theme_name, theme, idx, exc, old>>

\* Errors the file system raises from a write.
WriteErrors == {"FileNotFoundError", "OSError", "PermissionError"}

\* ConfiguredAbsolutePath.__exit__: the exception that leaves the `with`
\* block when exc_type was raised inside it.
Exit(exc_type) ==
    IF exc_type = "FileNotFoundError" THEN "ConfiguredFileNotFoundError"
    ELSE IF exc_type = "OSError" THEN "ConfiguredPathError"
    ELSE exc_type

\* The setter: self._config.save(), that is RootConfigMapping.save and
\* LazilySaveablePath.write.
Save ==
    /\ pc = "save"
    /\ IF ~(DictBool(config) \/ disk.exists)
       THEN /\ calls' = Append(calls, Call("save", 0, None, None, TRUE))
            /\ pc' = "applied"
            /\ UNCHANGED <<disk, exc>>
       ELSE \/ /\ disk' = [exists |-> TRUE, data |-> config]
               /\ calls' = Append(calls, Call("save", 0, None, None, TRUE))
               /\ pc' = "applied"
               /\ UNCHANGED exc
            \/ \E e \in WriteErrors :
                  /\ Raise(Exit(e))
                  /\ calls' = Append(calls,
                                     Call("save", 0, None, None, FALSE))
                  /\ UNCHANGED disk
    /\ UNCHANGED <<config, themes, libVars, builderVars, switcher, s_exc, op,
                   args, theme_name, theme, idx, old>>

\* The setter: the log line of a successful theme change.
LogApplied ==
    /\ pc = "applied"
    /\ calls' = Append(calls, Call("log_applied", 0, theme_name, None, TRUE))
    /\ pc' = "done"
    /\ UNCHANGED <<disk, config, themes, libVars, builderVars, switcher, s_exc,
                   op, args, theme_name, theme, idx, exc, old>>

\* reload: the log line of a successful reload.
LogReloaded ==
    /\ pc = "reloaded"
    /\ calls' = Append(calls, Call("log_reloaded", 0,
                                   Some(current_theme_name(switcher[1])),
                                   None, TRUE))
    /\ pc' = "done"
    /\ UNCHANGED <<disk, config, themes, libVars, builderVars, switcher, s_exc,
                   op, args, theme_name, theme, idx, exc, old>>

\* The operation has returned or raised: control is back with the caller,
\* and the locals of the operation are gone.
Return ==
    /\ pc = "done"
    /\ pc' = "idle"
    /\ op' = "none"
    /\ args' = [reload |-> FALSE, theme |-> None]
    /\ theme_name' = None
    /\ theme' = None
    /\ idx' = 0
    /\ calls' = <<>>
    /\ exc' = "none"
    /\ old' = [config |-> config, disk |-> disk]
    /\ UNCHANGED <<disk, config, themes, libVars, builderVars, switcher,
                   s_exc>>

-----------------------------------------------------------------------------
\* Arguments main may be given: the reload flag and an optional theme name.
CommandArgs == [reload : BOOLEAN, theme : {None} \cup {Some(n) : n \in AllNames}]

Next ==
    \/ \E thm \in {<<>>, themes} : NewBuilder(thm)
    \/ \E a \in ApplierValues : add_theme_applier(a)
    \/ \E v \in PromptValues : set_prompt(v)
    \/ build
    \/ \E cfg \in {None, Some("root")}, thm \in {<<>>, themes},
          appliers \in SeqUpTo(Appliers, MaxAppliers),
          prompt \in SwitcherPrompts :
          NewSwitcher(cfg, thm, appliers, prompt)
    \/ \E name \in AllNames : CallSetter(name)
    \/ CallReload
    \/ \E a \in CommandArgs : CallMain(a)
    \/ MainBranch
    \/ MainPrompt
    \/ ReloadStart
    \/ ApplyLookup
    \/ ApplyMerge
    \/ ApplyLoop
    \/ SetItem
    \/ Save
    \/ LogApplied
    \/ LogReloaded
    \/ Return

Spec == Init /\ [][Next]_vars

-----------------------------------------------------------------------------
\* The name map on its own: one collection, added to and replaced by the
\* collections the constructors return.

InitNameMap ==
    /\ AppIdle
    /\ LibIdle

NextNameMap ==
    \/ \E t \in Themes : NameMapAdd(t)
    \/ \E ts \in SeqUpTo(Themes, MaxInput) : NameMapNew(ts)
    \/ \E ts \in SeqUpTo(Themes, MaxInput) : NameMapFromUnique(ts)

SpecNameMap == InitNameMap /\ [][NextNameMap]_vars

-----------------------------------------------------------------------------
\* One theme file of any content, the theme constructed for it and the
\* colors requested from the theme.

\* The names requested: two canonical slots and a name that is no slot.
ColorNames == {"base00", "base0F", "base10"}

InitTheme ==
    /\ AppIdle
    /\ NameMapIdle
    /\ PathIdle
    /\ ConfigIdle
    /\ PluginsIdle
    /\ th_file \in SeqUpTo(FileLines, MaxLines)
    /\ th = None
    /\ th_reads = 0
    /\ th_op = [name |-> "none", arg |-> ""]
    /\ th_exc = [type |-> "none", descr |-> ""]
    /\ th_ret = None

NextTheme ==
    \/ ThemeNew
    \/ find_all_in
    \/ \E name \in ColorNames : ThemeGetItem(name)

SpecTheme == InitTheme /\ [][NextTheme]_vars

-----------------------------------------------------------------------------
\* config_structures.py: one LazilySaveablePath (a YamlConfigPath) and its
\* file, read, written and used as the context of a theme search.

\* The OS errors the methods of the underlying path raise for a file that
\* exists or for its directory: an OSError, and two of its subclasses.
ReadErrors == {"OSError", "PermissionError", "IsADirectoryError"}

\* The exceptions of the OS.
OSErrors == {"FileNotFoundError"} \cup ReadErrors \cup WriteErrors

\* LazilySaveablePath._get_empty_data of YamlConfigPath
get_empty_data == EmptyDict

\* LazilySaveablePath.read when raised is what _do_read raises inside the
\* with block ("none": it returns the content of file): the exception that
\* leaves the with block, the exception that leaves read and the optional
\* value returned.
read(file, fallback_to_empty, raised) ==
    LET left == Exit(raised)
    IN IF left = "none"
       THEN [ctx |-> left, exc |-> "none", ret |-> Some(file.data)]
       ELSE IF left = "ConfiguredFileNotFoundError"
       THEN IF ~fallback_to_empty
            THEN [ctx |-> left, exc |-> left, ret |-> None]
            ELSE [ctx |-> left, exc |-> "none", ret |-> Some(get_empty_data)]
       ELSE [ctx |-> left, exc |-> left, ret |-> None]

\* write without the test for empty data and a missing file.
write_eager(file, data, raised) ==
    LET left == Exit(raised)
    IN [writes |-> 1,
        file |-> IF raised = "none"
                 THEN [exists |-> TRUE, data |-> data] ELSE file,
        ctx |-> left,
        exc |-> left]

\* LazilySaveablePath.write when raised is what _do_write raises if it is
\* called: the number of its calls, the file left behind, the exception
\* that leaves the with block and the exception that leaves write.
write(file, data, raised) ==
    IF ~(DictBool(data) \/ file.exists)
    THEN [writes |-> 0, file |-> file, ctx |-> "none", exc |-> "none"]
    ELSE LET left == Exit(raised)
         IN [writes |-> 1,
             file |-> IF raised = "none"
                      THEN [exists |-> TRUE, data |-> data] ELSE file,
             ctx |-> left,
             exc |-> IF left = "ConfiguredFileNotFoundError"
                     THEN "ConfiguredFileNotFoundError" ELSE left]

\* path.read(fallback_to_empty): _do_read raises FileNotFoundError for a
\* file that does not exist, and returns or fails for one that does.
PathRead(fallback_to_empty) ==
    /\ \E raised \in IF ps_file.exists THEN {"none"} \cup ReadErrors
                     ELSE {"FileNotFoundError"} :
          LET r == read(ps_file, fallback_to_empty, raised)
          IN /\ ps_raised' = raised
             /\ ps_ctx' = r.ctx
             /\ ps_exc' = r.exc
             /\ ps_ret' = r.ret
    /\ ps_op' = [name |-> "read", data |-> EmptyDict,
                 fallback |-> fallback_to_empty, existed |-> ps_file.exists]
    /\ ps_writes' = 0
    /\ UNCHANGED <<appVars, plVars, cfVars, nmVars, thVars, ps_file>>

\* path.write(data): _do_write writes the file or fails.
PathWrite(data) ==
    /\ \E raised \in {"none"} \cup WriteErrors :
          LET r == write(ps_file, data, raised)
          IN /\ ps_raised' = IF r.writes = 0 THEN "none" ELSE raised
             /\ ps_ctx' = r.ctx
             /\ ps_exc' = r.exc
             /\ ps_file' = r.file
             /\ ps_writes' = r.writes
    /\ ps_op' = [name |-> "write", data |-> data, fallback |-> FALSE,
                 existed |-> ps_file.exists]
    /\ ps_ret' = None
    /\ UNCHANGED <<appVars, plVars, cfVars, nmVars, thVars>>

\* Base16Theme.find_all_in(path): the with block of the search, in which
\* rglob returns or fails.
PathSearch ==
    /\ \E raised \in {"none", "FileNotFoundError"} \cup ReadErrors :
          /\ ps_raised' = raised
          /\ ps_ctx' = Exit(raised)
          /\ ps_exc' = Exit(raised)
    /\ ps_op' = [name |-> "find_all_in", data |-> EmptyDict,
                 fallback |-> FALSE, existed |-> ps_file.exists]
    /\ ps_ret' = None
    /\ ps_writes' = 0
    /\ UNCHANGED <<appVars, plVars, cfVars, nmVars, thVars, ps_file>>

InitPath ==
    /\ AppIdle
    /\ NameMapIdle
    /\ ThemeIdle
    /\ ConfigIdle
    /\ PluginsIdle
    /\ ps_file \in {[exists |-> FALSE, data |-> EmptyDict]}
                   \cup {[exists |-> TRUE, data |-> f] : f \in FileData}
    /\ ps_op = [name |-> "none", data |-> EmptyDict, fallback |-> FALSE,
                existed |-> FALSE]
    /\ ps_raised = "none"
    /\ ps_ctx = "none"
    /\ ps_exc = "none"
    /\ ps_ret = None
    /\ ps_writes = 0

NextPath ==
    \/ \E f \in BOOLEAN : PathRead(f)
    \/ \E data \in FileData : PathWrite(data)
    \/ PathSearch

SpecPath == InitPath /\ [][NextPath]_vars

-----------------------------------------------------------------------------
\* config_structures.py: a RootConfigMapping loaded from a file, the views
\* of its sections, and the operations made through them.

\* The longest chain of keys read at once.
MaxChain == 3

\* The keys used, and the scalars assigned.
CfKeys == {"theme", "sec"}
CfScalars == {1, 2}

\* dict without key
DictDel(d, key) == [k \in DOMAIN d \ {key} |-> d[k]]

RECURSIVE Join(_, _)
\* sep.join(strs)
Join(strs, sep) ==
    IF strs = <<>> THEN ""
    ELSE IF Len(strs) = 1 THEN strs[1]
    ELSE strs[1] \o sep \o Join(Tail(strs), sep)

\* The message of the ConfigKeyError of __getitem__.
ConfigKeyMessage(key, ancestors) ==
    "A requested configuration option \"" \o key \o "\" is missing in "
        \o Join(ancestors, ":")

RECURSIVE Freeze(_, _)
\* The data under the dict n of the heap as a value: what a store is handed
\* and what a file holds.
Freeze(heap, n) ==
    [kind |-> "dict",
     val |-> [k \in DOMAIN heap[n] |->
                 IF heap[n][k].kind = "dict"
                 THEN Freeze(heap, heap[n][k].val)
                 ELSE heap[n][k]]]

\* The data a configuration file may hold: empty or flat, and with
\* sections one and two deep.
FlatHeaps ==
    { <<EmptyDict>>, <<[theme |-> Scalar(1)]>> }
NestedHeaps ==
    { <<[theme |-> Scalar(1), sec |-> Ref(2)], [theme |-> Scalar(2)]>>,
      <<[sec |-> Ref(2)], [theme |-> Scalar(1), sec |-> Ref(3)],
        [theme |-> Scalar(2)]>> }

\* __getitem__ that wraps a section with the ancestors of self.
ConfigGetItem_same_ancestors(heap, self, key) ==
    IF key \notin DOMAIN heap[self.data]
    THEN [exc |-> "ConfigKeyError",
          msg |-> ConfigKeyMessage(key, self.ancestors),
          ret |-> RetNone, heap |-> heap]
    ELSE LET value == heap[self.data][key]
         IN IF value.kind = "dict"
            THEN [exc |-> "none", msg |-> "",
                  ret |-> RetView(View(value.val, self.ancestors)),
                  heap |-> heap]
            ELSE [exc |-> "none", msg |-> "", ret |-> RetScalar(value.val),
                  heap |-> heap]

\* __getitem__ that wraps a copy of the section.
ConfigGetItem_copy(heap, self, key) ==
    IF key \notin DOMAIN heap[self.data]
    THEN [exc |-> "ConfigKeyError",
          msg |-> ConfigKeyMessage(key, self.ancestors),
          ret |-> RetNone, heap |-> heap]
    ELSE LET value == heap[self.data][key]
         IN IF value.kind = "dict"
            THEN [exc |-> "none", msg |-> "",
                  ret |-> RetView(View(Len(heap) + 1,
                                       Append(self.ancestors, key))),
                  heap |-> Append(heap, heap[value.val])]
            ELSE [exc |-> "none", msg |-> "", ret |-> RetScalar(value.val),
                  heap |-> heap]

\* ConfigMapping.__getitem__ of the view self: the exception and its
\* message, the value returned and the heap left behind.
ConfigGetItem(heap, self, key) ==
    IF key \notin DOMAIN heap[self.data]
    THEN [exc |-> "ConfigKeyError",
          msg |-> ConfigKeyMessage(key, self.ancestors),
          ret |-> RetNone, heap |-> heap]
    ELSE LET value == heap[self.data][key]
         IN IF value.kind = "dict"
            THEN [exc |-> "none", msg |-> "",
                  ret |-> RetView(View(value.val,
                                       Append(self.ancestors, key))),
                  heap |-> heap]
            ELSE [exc |-> "none", msg |-> "", ret |-> RetScalar(value.val),
                  heap |-> heap]

RECURSIVE get_by_key_chain(_, _, _)
\* selection = mapping; for k in keys: selection = selection[k]. A scalar
\* cannot be indexed with a key.
get_by_key_chain(heap, mapping, keys) ==
    LET r == ConfigGetItem(heap, mapping, Head(keys))
    IN IF r.exc # "none" \/ Len(keys) = 1 THEN r
       ELSE IF r.ret.kind # "view"
       THEN [exc |-> "TypeError", msg |-> "", ret |-> RetNone,
             heap |-> r.heap]
       ELSE get_by_key_chain(r.heap, r.ret.view, Tail(keys))

\* The mappings in hand: the root and the views returned so far.
Mappings == {RootView} \cup cf_views

\* Reading a chain of keys from a mapping in hand; a view it returns is in
\* hand from then on.
ConfigRead(mapping, keys) ==
    /\ LET r == get_by_key_chain(cf_heap, mapping, keys)
       IN /\ cf_exc' = r.exc
          /\ cf_msg' = r.msg
          /\ cf_ret' = r.ret
          /\ cf_heap' = r.heap
          /\ cf_views' = IF r.ret.kind = "view"
                         THEN cf_views \cup {r.ret.view} ELSE cf_views
    /\ cf_op' = [name |-> "get", view |-> mapping, keys |-> keys, val |-> 0]
    /\ cf_writes' = 0
    /\ UNCHANGED <<appVars, plVars, nmVars, thVars, psVars, cf_file,
                   cf_was_set>>

\* mapping[key] = value: ConfigMapping.__setitem__
ConfigSetItem(mapping, key, value) ==
    /\ cf_heap' = [cf_heap EXCEPT ![mapping.data] =
                       DictSet(@, key, Scalar(value))]
    /\ cf_op' = [name |-> "set", view |-> mapping, keys |-> <<key>>,
                 val |-> value]
    /\ cf_exc' = "none"
    /\ cf_msg' = ""
    /\ cf_ret' = RetNone
    /\ cf_writes' = 0
    /\ cf_was_set' = TRUE
    /\ UNCHANGED <<appVars, plVars, nmVars, thVars, psVars, cf_views, cf_file>>

\* del mapping[key]: ConfigMapping.__delitem__; the KeyError of the dict
\* for a key it does not hold is not converted.
ConfigDelItem(mapping, key) ==
    /\ IF key \in DOMAIN cf_heap[mapping.data]
       THEN /\ cf_heap' = [cf_heap EXCEPT ![mapping.data] = DictDel(@, key)]
            /\ cf_exc' = "none"
       ELSE /\ cf_exc' = "KeyError"
            /\ UNCHANGED cf_heap
    /\ cf_op' = [name |-> "del", view |-> mapping, keys |-> <<key>>,
                 val |-> 0]
    /\ cf_msg' = ""
    /\ cf_ret' = RetNone
    /\ cf_writes' = 0
    /\ UNCHANGED <<appVars, plVars, nmVars, thVars, psVars, cf_views, cf_file,
                   cf_was_set>>

\* RootConfigMapping.save: self._source.write(self._data); the value
\* returned here is the data handed to write.
ConfigSave ==
    /\ \E raised \in {"none"} \cup WriteErrors :
          LET r == write(cf_file, Freeze(cf_heap, 1).val, raised)
          IN /\ cf_file' = r.file
             /\ cf_exc' = r.exc
             /\ cf_writes' = r.writes
    /\ cf_op' = [name |-> "save", view |-> RootView, keys |-> <<>>,
                 val |-> 0]
    /\ cf_msg' = ""
    /\ cf_ret' = RetView(RootView)
    /\ UNCHANGED <<appVars, plVars, nmVars, thVars, psVars, cf_heap, cf_views,
                   cf_was_set>>

\* RootConfigMapping(source) for a source whose file holds the data of one
\* of heaps or, when missing is true, may not exist: the data is what
\* read(fallback_to_empty=True) returns.
ConfigLoaded(heaps, missing) ==
    /\ cf_file \in (IF missing
                     THEN {[exists |-> FALSE, data |-> EmptyDict]} ELSE {})
                   \cup {[exists |-> TRUE, data |-> Freeze(h, 1).val] :
                            h \in heaps}
    /\ cf_heap \in {h \in heaps \cup FlatHeaps :
                       Some(Freeze(h, 1).val) =
                           read(cf_file, TRUE,
                                IF cf_file.exists THEN "none"
                                ELSE "FileNotFoundError").ret}
    /\ cf_views = {}
    /\ cf_op = [name |-> "none", view |-> NoView, keys |-> <<>>, val |-> 0]
    /\ cf_exc = "none"
    /\ cf_msg = ""
    /\ cf_ret = RetNone
    /\ cf_writes = 0
    /\ cf_was_set = FALSE

\* A configuration with sections: reads through the root and the views,
\* assignments and deletions through the views, and save.
InitConfig ==
    /\ AppIdle
    /\ NameMapIdle
    /\ ThemeIdle
    /\ PathIdle
    /\ PluginsIdle
    /\ ConfigLoaded(NestedHeaps, FALSE)

NextConfig ==
    \/ \E m \in Mappings, n \in 1..MaxChain :
          \E keys \in [1..n -> CfKeys] : ConfigRead(m, keys)
    \/ \E m \in cf_views, value \in CfScalars :
          ConfigSetItem(m, "theme", value)
    \/ \E m \in cf_views, key \in CfKeys : ConfigDelItem(m, key)
    \/ ConfigSave

SpecConfig == InitConfig /\ [][NextConfig]_vars

\* A configuration whose file does not exist when it is loaded: reads,
\* assignments and deletions through the root, and save.
InitRoot ==
    /\ AppIdle
    /\ NameMapIdle
    /\ ThemeIdle
    /\ PathIdle
    /\ PluginsIdle
    /\ ConfigLoaded({}, TRUE)

NextRoot ==
    \/ \E key \in CfKeys : ConfigRead(RootView, <<key>>)
    \/ \E key \in CfKeys, value \in CfScalars :
          ConfigSetItem(RootView, key, value)
    \/ \E key \in CfKeys : ConfigDelItem(RootView, key)
    \/ ConfigSave

SpecRoot == InitRoot /\ [][NextRoot]_vars

-----------------------------------------------------------------------------
\* Plugin discovery (plugin_loading.py), run on its own.  A module name is a
\* sequence of character codes.

MaxModules == 3

\* The prefixes discovery is asked for and the names of the installed
\* modules: two that start with both prefixes, one that contains the longer
\* prefix elsewhere, and one that is the shorter prefix itself.
Prefixes == {<<1, 2>>, <<1>>}
ModuleNames == {<<1, 2, 3>>, <<1, 2, 4>>, <<3, 1, 2>>, <<1>>}

\* What importlib.import_module does with a module: it returns the module,
\* or the import raises ImportError, its subclass ModuleNotFoundError, or an
\* exception of another class that the body of the module raises.
ImportOutcomes == {"ok", "ImportError", "ModuleNotFoundError", "SyntaxError"}

\* except ImportError: the class and its subclass.
IsImportError(e) == e \in {"ImportError", "ModuleNotFoundError"}

\* The module object of a name.
Module(name) == [name |-> name]

\* The prefix test that lets every module through.
startswith_unchecked(s, prefix) == TRUE

\* str.startswith
startswith(s, prefix) ==
    /\ Len(s) >= Len(prefix)
    /\ SubSeq(s, 1, Len(prefix)) = prefix

\* module_name[len(prefix):]
StripPrefix(module_name, prefix) ==
    SubSeq(module_name, Len(prefix) + 1, Len(module_name))

\* The loop of get_modules_by_name_prefix over the names that are left: the
\* exception that leaves it, the map it returns and the imports it made.
RECURSIVE DiscoverLoop(_, _, _, _, _)
DiscoverLoop(prefix, modules, outcome, name_module_map, imports) ==
    IF modules = <<>>
    THEN [exc |-> "none", ret |-> Some(name_module_map), imports |-> imports]
    ELSE LET module_name == Head(modules)
             imported == Append(imports, module_name)
         IN IF ~startswith(module_name, prefix)
            THEN DiscoverLoop(prefix, Tail(modules), outcome,
                              name_module_map, imports)
            ELSE IF outcome[module_name] = "ok"
            THEN DiscoverLoop(prefix, Tail(modules), outcome,
                              DictSetItem(name_module_map,
                                          StripPrefix(module_name, prefix),
                                          Module(module_name)),
                              imported)
            ELSE IF IsImportError(outcome[module_name])
            THEN DiscoverLoop(prefix, Tail(modules), outcome,
                              name_module_map, imported)
            ELSE [exc |-> outcome[module_name], ret |-> None,
                  imports |-> imported]

get_modules_by_name_prefix(prefix, modules, outcome) ==
    DiscoverLoop(prefix, modules, outcome, <<>>, <<>>)

\* get_modules_by_name_prefix(prefix) with the installed modules.
PluginsDiscover(prefix) ==
    /\ LET r == get_modules_by_name_prefix(prefix, pl_modules, pl_outcome)
       IN /\ pl_exc' = r.exc
          /\ pl_ret' = r.ret
          /\ pl_imports' = r.imports
    /\ pl_op' = [name |-> "discover", prefix |-> prefix]
    /\ UNCHANGED <<appVars, nmVars, thVars, psVars, cfVars, pl_modules,
                   pl_outcome, pl_config, pl_behaviour, pl_msg, pl_cause,
                   pl_calls>>

InitDiscover ==
    /\ AppIdle
    /\ NameMapIdle
    /\ ThemeIdle
    /\ PathIdle
    /\ ConfigIdle
    /\ pl_modules \in SeqUpTo(ModuleNames, MaxModules)
    /\ pl_outcome \in [{pl_modules[i] : i \in DOMAIN pl_modules}
                       -> ImportOutcomes]
    /\ pl_config = [kind |-> "missing", names |-> <<>>]
    /\ pl_behaviour = <<>>
    /\ pl_op = [name |-> "none", prefix |-> <<>>]
    /\ pl_exc = "none"
    /\ pl_msg = NoMessage
    /\ pl_cause = "none"
    /\ pl_ret = None
    /\ pl_imports = <<>>
    /\ pl_calls = <<>>

NextDiscover == \E prefix \in Prefixes : PluginsDiscover(prefix)

SpecDiscover == InitDiscover /\ [][NextDiscover]_vars

-----------------------------------------------------------------------------
\* Plugin activation (plugin_loading.py), run on its own.

MaxPlugins == 3

\* 'b16ts_'
B16tsPrefix == <<1, 2>>

\* The names plugins are configured by: those of the two modules that carry
\* the prefix, and one no installed module has.
PluginA == <<3>>
PluginB == <<4>>
PluginC == <<5>>
PluginNames == {PluginA, PluginB, PluginC}

\* What pkgutil.iter_modules yields in these runs: both plugin modules, or
\* the first of them alone.
Listings == {<<B16tsPrefix \o PluginA, B16tsPrefix \o PluginB>>,
             <<B16tsPrefix \o PluginA>>}

\* plugin_api_impl: the builder the plugins are applied to.
TheBuilder == "builder"

\* The value 'plugins' is mapped to in the configuration: none, a scalar, a
\* list of names, or a mapping with the names as its keys, in their order.
PluginConfig(kind, names) == [kind |-> kind, names |-> names]
PluginConfigs ==
    {PluginConfig("missing", <<>>), PluginConfig("scalar", <<>>)}
    \cup {PluginConfig("list", ns) : ns \in SeqUpTo(PluginNames, MaxPlugins)}
    \cup {PluginConfig("mapping", ns) :
             ns \in {s \in SeqUpTo(PluginNames, MaxPlugins) :
                        \A i, j \in DOMAIN s : s[i] = s[j] => i = j}}

\* What apply_to of a plugin does: it returns, or it raises SetupError, a
\* subclass of it, or ConfigValueError.
ApplyOutcomes == {"ok", "SetupError", "ConfigKeyError", "ConfigValueError"}

\* SetupError and the subclasses config_structures.py defines.
SetupErrors == {"SetupError", "ConfigKeyError", "ConfiguredPathError",
                "ConfiguredFileNotFoundError"}

\* The base classes of ConfigValueError, which plugin_loading.py imports
\* from config_structures: an error in the configuration, as ConfigKeyError.
ConfigValueErrorBases == {"SetupError", "ValueError"}

\* except SetupError
IsSetupError(e) ==
    \/ e \in SetupErrors
    \/ e = "ConfigValueError" /\ "SetupError" \in ConfigValueErrorBases

\* isinstance(plugin_config, Mapping); a section read from a ConfigMapping is
\* a ConfigMapping, which is a Mapping.
IsMapping(plugin_config) == plugin_config.kind = "mapping"

\* The names in the opposite order.
Iter_reversed(plugin_config) ==
    [i \in DOMAIN plugin_config.names |->
        plugin_config.names[Len(plugin_config.names) + 1 - i]]

\* for name in plugin_config: the keys of the mapping in their order.
Iter(plugin_config) == plugin_config.names

\* The exception an outcome of a call raises.
Raised(outcome) == IF outcome = "ok" THEN "none" ELSE outcome

\* available_plugins[name]
DictGetItem(d, k) == d[CHOOSE i \in 1..Len(d) : d[i].key = k].value

\* A call of apply_to.
ApplyCall(module, arg) == [module |-> module, arg |-> arg]

\* The result of a run of apply_configured_plugins.
Applied(e, msg, cause, applied) ==
    [exc |-> e, msg |-> msg, cause |-> cause, calls |-> applied]

\* The body of the loop with an unavailable name passed over.
ApplyOne_skip(plugin_api_impl, available_plugins, behaviour, name, applied) ==
    IF name \notin DictKeys(available_plugins)
    THEN Applied("none", NoMessage, "none", applied)
    ELSE LET module == DictGetItem(available_plugins, name)
             called == Append(applied, ApplyCall(module, plugin_api_impl))
         IN IF IsSetupError(behaviour[name])
            THEN Applied("SetupError",
                         Message("Error while setting up \"{}\" plugin.", name),
                         behaviour[name], called)
            ELSE Applied(Raised(behaviour[name]), NoMessage, "none",
                         called)

\* The body of the loop with the exception of apply_to let through.
ApplyOne_raw(plugin_api_impl, available_plugins, behaviour, name, applied) ==
    IF name \notin DictKeys(available_plugins)
    THEN Applied("ConfigValueError",
                 Message("The \"{}\" plugin is configured but not available.",
                         name),
                 "none", applied)
    ELSE LET module == DictGetItem(available_plugins, name)
             called == Append(applied, ApplyCall(module, plugin_api_impl))
         IN Applied(Raised(behaviour[name]), NoMessage, "none", called)

\* The body of the loop of apply_configured_plugins for a name, after the
\* calls in applied: the exception it raises and the calls made.
ApplyOne(plugin_api_impl, available_plugins, behaviour, name, applied) ==
    IF name \notin DictKeys(available_plugins)
    THEN Applied("ConfigValueError",
                 Message("The \"{}\" plugin is configured but not available.",
                         name),
                 "none", applied)
    ELSE LET module == DictGetItem(available_plugins, name)
             called == Append(applied, ApplyCall(module, plugin_api_impl))
         IN IF IsSetupError(behaviour[name])
            THEN Applied("SetupError",
                         Message("Error while setting up \"{}\" plugin.", name),
                         behaviour[name], called)
            ELSE Applied(Raised(behaviour[name]), NoMessage, "none",
                         called)

\* The loop of apply_configured_plugins over the names that are left.
RECURSIVE ActivateLoop(_, _, _, _, _)
ActivateLoop(plugin_api_impl, available_plugins, behaviour, names, applied) ==
    IF names = <<>>
    THEN Applied("none", NoMessage, "none", applied)
    ELSE LET r == ApplyOne(plugin_api_impl, available_plugins, behaviour,
                           Head(names), applied)
         IN IF r.exc # "none"
            THEN r
            ELSE ActivateLoop(plugin_api_impl, available_plugins, behaviour,
                              Tail(names), r.calls)

\* apply_configured_plugins, with plugin_config for
\* plugin_api_impl.config['plugins'] and behaviour for what apply_to of each
\* module does.  The message of the ConfigKeyError of a missing 'plugins' key
\* is that of ConfigGetItem; it names no plugin.
apply_configured_plugins(plugin_api_impl, plugin_config, available, behaviour) ==
    IF plugin_config.kind = "missing"
    THEN Applied("ConfigKeyError",
                 Message("A requested configuration option \"{}\" is missing"
                         \o " in {}", <<>>),
                 "none", <<>>)
    ELSE IF ~IsMapping(plugin_config)
    THEN Applied("ConfigValueError",
                 Message("Invalid plugin configuration format.", <<>>),
                 "none", <<>>)
    ELSE ActivateLoop(plugin_api_impl, available, behaviour,
                      Iter(plugin_config), <<>>)

\* apply_configured_b16ts_plugins(theme_switcher_builder)
PluginsApply(theme_switcher_builder) ==
    /\ pl_op.name = "none"
    /\ LET d == get_modules_by_name_prefix(B16tsPrefix, pl_modules,
                                           pl_outcome)
           r == IF d.exc # "none"
                THEN Applied(d.exc, NoMessage, "none", <<>>)
                ELSE apply_configured_plugins(theme_switcher_builder,
                                              pl_config, d.ret[1],
                                              pl_behaviour)
       IN /\ pl_imports' = d.imports
          /\ pl_exc' = r.exc
          /\ pl_msg' = r.msg
          /\ pl_cause' = r.cause
          /\ pl_calls' = r.calls
    /\ pl_ret' = None
    /\ pl_op' = [name |-> "apply", prefix |-> B16tsPrefix]
    /\ UNCHANGED <<appVars, nmVars, thVars, psVars, cfVars, pl_modules,
                   pl_outcome, pl_config, pl_behaviour>>

InitPlugins ==
    /\ AppIdle
    /\ NameMapIdle
    /\ ThemeIdle
    /\ PathIdle
    /\ ConfigIdle
    /\ pl_modules \in Listings
    /\ pl_outcome = [m \in {pl_modules[i] : i \in DOMAIN pl_modules} |-> "ok"]
    /\ pl_config \in PluginConfigs
    /\ pl_behaviour \in [{PluginA, PluginB} -> ApplyOutcomes]
    /\ pl_op = [name |-> "none", prefix |-> <<>>]
    /\ pl_exc = "none"
    /\ pl_msg = NoMessage
    /\ pl_cause = "none"
    /\ pl_ret = None
    /\ pl_imports = <<>>
    /\ pl_calls = <<>>

NextPlugins == PluginsApply(TheBuilder)

SpecPlugins == InitPlugins /\ [][NextPlugins]_vars

-----------------------------------------------------------------------------
\* Vocabulary of the properties.

\* The applier list of the switcher.
TheAppliers == switcher[1]._theme_appliers

\* The positions of the calls of a kind.
CallsOf(ev) == {i \in DOMAIN calls : calls[i].ev = ev}

\* The operation goes through the current_theme_name setter.
ThroughSetter == op = "setter" \/ (op = "main" /\ ~args.reload)

\* The operation goes through reload().
ThroughReload == op = "reload" \/ (op = "main" /\ args.reload)

\* The calls a theme change to name makes when nothing raises: the lookup,
\* the merge command, the appliers in registration order with the theme of
\* that name, and then tail.
ApplyCalls(name) ==
    LET t == Some(NameMapGetItem(switcher[1]._themes, name))
    IN <<Call("lookup", 0, Some(name), None, TRUE),
         Call("merge", 0, None, t, TRUE)>>
       \o [k \in 1..Len(TheAppliers) |->
              Call("apply", TheAppliers[k].id, None, t, TRUE)]

\* The calls of the setter after _apply.
PersistCalls(name) ==
    <<Call("setitem", 0, Some(name), None, TRUE),
      Call("save", 0, None, None, TRUE),
      Call("log_applied", 0, Some(name), None, TRUE)>>

\* The appliers whose apply has returned in a sequence of calls, in the
\* order of the calls.
IsReturnedApply(c) == c.ev = "apply" /\ c.ok
Returned(cs) ==
    LET r == SelectSeq(cs, IsReturnedApply)
    IN [k \in 1..Len(r) |-> r[k].who]

\* The default of the getter, found without sorting: the name of a theme of
\* the collection that no other name precedes.
LeastName(m) ==
    CHOOSE n \in NameMapKeys(m) : \A o \in NameMapKeys(m) : ~StrLess(o, n)

-----------------------------------------------------------------------------
\* C1: no speculative persistence. In an operation that goes through the
\* setter, config['theme'] is assigned and save() is called only after the
\* merge command and the apply of every registered applier have returned;
\* as long as the assignment has not been made the config data is the one
\* the operation started with, as long as save() has not been called so is
\* the file, and when the lookup, the merge command or an applier raises,
\* the operation ends with neither made.
C1_NoSpeculativePersistence ==
    (switcher # None /\ ThroughSetter) =>
        /\ \A i \in CallsOf("setitem") \cup CallsOf("save") :
              /\ \E j \in 1..(i - 1) : calls[j].ev = "merge" /\ calls[j].ok
              /\ Returned(SubSeq(calls, 1, i - 1)) =
                    [k \in 1..Len(TheAppliers) |-> TheAppliers[k].id]
        /\ CallsOf("setitem") = {} => config = old.config
        /\ CallsOf("save") = {} => disk = old.disk
        /\ (exc \in {"KeyError", "OSError", "ApplierError"}) =>
              /\ CallsOf("setitem") = {}
              /\ CallsOf("save") = {}
              /\ config = old.config
              /\ disk = old.disk

\* An applier raised after another had returned, in a theme change that
\* would have replaced the configured theme.
C1_Witness ==
    /\ pc = "done"
    /\ op = "setter"
    /\ exc = "ApplierError"
    /\ Len(TheAppliers) = 2
    /\ Len(calls) = 4
    /\ "theme" \in DOMAIN config
    /\ config["theme"] # theme_name[1]

\* C2: a successful `current_theme_name = name` makes exactly these calls in
\* this order: the lookup of name, the merge command for the theme found,
\* apply of every registered applier in registration order with that theme,
\* the assignment of name to config['theme'], save(), the success log; the
\* config then holds name, and so does the file.
C2_SetterSequence ==
    (pc = "done" /\ op = "setter" /\ exc = "none") =>
        /\ calls = ApplyCalls(theme_name[1]) \o PersistCalls(theme_name[1])
        /\ Cardinality(CallsOf("setitem")) = 1
        /\ Cardinality(CallsOf("save")) = 1
        /\ Cardinality(CallsOf("apply")) = Len(TheAppliers)
        /\ config = DictSet(old.config, "theme", theme_name[1])
        /\ disk = [exists |-> TRUE, data |-> config]

\* A successful theme change with two different appliers registered.
C2_Witness ==
    /\ pc = "done"
    /\ op = "setter"
    /\ exc = "none"
    /\ Len(TheAppliers) = 2
    /\ TheAppliers[1] # TheAppliers[2]
    /\ old.config # config

\* C3: setting current_theme_name to a name that is not in the collection
\* raises KeyError before any side effect: the only call made is the failed
\* lookup, and config and file are the ones the operation started with.
C3_UnknownTheme ==
    (switcher # None /\ op = "setter"
        /\ theme_name[1] \notin NameMapKeys(switcher[1]._themes)) =>
        /\ \A i \in DOMAIN calls : calls[i].ev = "lookup" /\ ~calls[i].ok
        /\ config = old.config
        /\ disk = old.disk
        /\ pc \in {"lookup", "done"}
        /\ pc = "done" => (exc = "KeyError" /\ Len(calls) = 1)

\* The setter has raised KeyError for a name no theme has, on a switcher
\* with appliers.
C3_Witness ==
    /\ pc = "done"
    /\ op = "setter"
    /\ exc = "KeyError"
    /\ theme_name[1] \notin NameMapKeys(switcher[1]._themes)
    /\ Len(TheAppliers) > 0

\* C4: reload() applies the theme named by current_theme_name (the merge
\* command, then every applier once with that theme) and leaves the
\* persisted state alone: it assigns no config entry and never calls save(),
\* so config and file are at every step the ones reload() started with.
C4_ReloadFrame ==
    (switcher # None /\ op = "reload") =>
        /\ CallsOf("setitem") = {}
        /\ CallsOf("save") = {}
        /\ config = old.config
        /\ disk = old.disk
        /\ (pc = "done" /\ exc = "none") =>
              LET name == current_theme_name(switcher[1])
              IN calls = <<Call("log_reloading", 0, None, None, TRUE)>>
                         \o ApplyCalls(name)
                         \o <<Call("log_reloaded", 0, Some(name), None, TRUE)>>

\* reload() has returned after applying the default theme of a config
\* without a 'theme' entry.
C4_Witness ==
    /\ pc = "done"
    /\ op = "reload"
    /\ exc = "none"
    /\ "theme" \notin DOMAIN config
    /\ Len(TheAppliers) = 2

\* C5: reading current_theme_name gives the 'theme' entry of the config when
\* there is one, and otherwise the least name of the collection, whatever
\* the insertion order; after a theme change to n that raised nothing it
\* gives n.
C5_CurrentThemeName ==
    switcher # None =>
        LET r == current_theme_name(switcher[1])
        IN /\ "theme" \in DOMAIN config => r = config["theme"]
           /\ "theme" \notin DOMAIN config =>
                 r = LeastName(switcher[1]._themes)
           /\ (pc = "done" /\ ThroughSetter /\ exc = "none") =>
                 r = theme_name[1]
           /\ (op = "reload" /\ theme_name # None) => theme_name = Some(r)

\* reload() has read current_theme_name from a config without a 'theme'
\* entry, over a collection whose first inserted theme is not the least.
C5_Witness ==
    /\ switcher # None
    /\ op = "reload"
    /\ pc = "lookup"
    /\ "theme" \notin DOMAIN config
    /\ Len(switcher[1]._themes) = 2
    /\ StrLess(switcher[1]._themes[2].name, switcher[1]._themes[1].name)
    /\ theme_name = Some(switcher[1]._themes[2].name)

\* C6: main(args) with the reload flag set calls reload() and returns: the
\* prompt is never invoked, the theme argument is ignored (the theme looked
\* up is the configured one), config['theme'] is not written, save() is not
\* called, config and file stay as they were, and the calls of a run that
\* raised nothing are those of reload() for the configured theme.
C6_MainReload ==
    (switcher # None /\ op = "main" /\ args.reload) =>
        /\ CallsOf("prompt") = {}
        /\ CallsOf("setitem") = {}
        /\ CallsOf("save") = {}
        /\ pc \notin {"prompt", "setitem", "save", "applied"}
        /\ config = old.config
        /\ disk = old.disk
        /\ theme_name # None =>
              theme_name = Some(current_theme_name(switcher[1]))
        /\ (pc = "done" /\ exc = "none") =>
              LET name == current_theme_name(switcher[1])
              IN calls = <<Call("log_reloading", 0, None, None, TRUE)>>
                         \o ApplyCalls(name)
                         \o <<Call("log_reloaded", 0, Some(name), None, TRUE)>>

\* main has returned from a reload although a theme other than the
\* configured one was given.
C6_Witness ==
    /\ pc = "done"
    /\ op = "main"
    /\ args.reload
    /\ exc = "none"
    /\ args.theme # None
    /\ args.theme[1] \in NameMapKeys(switcher[1]._themes)
    /\ args.theme[1] # current_theme_name(switcher[1])
    /\ Len(TheAppliers) > 0

\* C7: main(args) with the reload flag unset. With a theme name given the
\* prompt is never invoked and the name goes through the setter. With no
\* theme name the prompt is invoked exactly once, before anything else, and
\* the name it returns is the one looked up, applied by every applier,
\* written to config['theme'] and saved.
C7_MainSet ==
    (switcher # None /\ op = "main" /\ ~args.reload) =>
        /\ args.theme # None =>
              /\ CallsOf("prompt") = {}
              /\ pc # "prompt"
              /\ theme_name # None => theme_name = args.theme
              /\ (pc = "done" /\ exc = "none") =>
                    /\ calls = ApplyCalls(args.theme[1])
                               \o PersistCalls(args.theme[1])
                    /\ config = DictSet(old.config, "theme", args.theme[1])
                    /\ disk = [exists |-> TRUE, data |-> config]
        /\ args.theme = None =>
              /\ pc \in {"main", "prompt"} => calls = <<>>
              /\ pc \notin {"main", "prompt"} =>
                    /\ CallsOf("prompt") = {1}
                    /\ calls[1].ok => theme_name = calls[1].name
              /\ (pc = "done" /\ exc = "none") =>
                    LET n == calls[1].name[1]
                    IN /\ calls = <<calls[1]>> \o ApplyCalls(n)
                                  \o PersistCalls(n)
                       /\ config = DictSet(old.config, "theme", n)
                       /\ disk = [exists |-> TRUE, data |-> config]

\* main has changed the theme to the name the prompt returned, with two
\* appliers registered.
C7_Witness ==
    /\ pc = "done"
    /\ op = "main"
    /\ ~args.reload
    /\ args.theme = None
    /\ exc = "none"
    /\ Len(TheAppliers) = 2
    /\ config # old.config

\* C8: the prompt of a builder is write-once. The first assignment of a
\* callable installs it; once the prompt is not None no step changes it, and
\* every assignment made then raises SetupError and leaves the builder as
\* it was.
C8_PromptWriteOnce ==
    [][/\ (builder # None /\ builder[1]._prompt # PyNone) =>
              (builder' # None /\ builder'[1]._prompt = builder[1]._prompt)
       /\ \A v \in PromptValues :
              (set_prompt(v) /\ builder[1]._prompt # PyNone) =>
                  (b_exc' = "SetupError" /\ builder' = builder)
       /\ \A v \in PromptValues :
              (set_prompt(v) /\ builder[1]._prompt = PyNone /\ callable(v)) =>
                  (b_exc' = "none" /\ builder'[1]._prompt = v)]_vars

\* A second callable was assigned to a builder whose prompt is the first.
C8_Witness ==
    /\ builder # None
    /\ b_op = [name |-> "prompt", arg |-> Function2]
    /\ b_exc = "SetupError"
    /\ builder[1]._prompt = Function1

\* C9: assigning a value that is not callable to the prompt of a builder
\* that has none raises TypeError and leaves the prompt None, so that the
\* assignment of a callable that follows installs it.
C9_PromptNotCallable ==
    [][/\ \A v \in PromptValues :
              (set_prompt(v) /\ builder[1]._prompt = PyNone /\ ~callable(v)) =>
                  (b_exc' = "TypeError" /\ builder' = builder)
       /\ \A v \in PromptValues :
              (set_prompt(v) /\ b_op.name = "prompt" /\ b_exc = "TypeError"
                  /\ callable(v)) =>
                  (b_exc' = "none" /\ builder'[1]._prompt = v)]_vars

\* An object that is not callable was assigned to the prompt, which is
\* still None.
C9_Witness ==
    /\ builder # None
    /\ b_op = [name |-> "prompt", arg |-> PlainObject]
    /\ b_exc = "TypeError"
    /\ builder[1]._prompt = PyNone

\* C10: add_theme_applier accepts every object that provides apply, and
\* build() on a builder with a prompt returns a ThemeSwitcher whose applier
\* list is the list of the accepted appliers, in the order they were added.
C10_BuildReturnsAppliers ==
    /\ (builder # None /\ b_op.name = "add" /\ subclasshook(b_op.arg)) =>
          b_exc = "none"
    /\ (builder # None /\ b_op.name = "build"
           /\ builder[1]._prompt # PyNone) =>
          /\ b_exc = "none"
          /\ b_ret # None
          /\ b_ret[1]._theme_appliers = b_added

\* C11: add_theme_applier called with an object that does not provide apply
\* raises TypeError and leaves the builder, its applier list included, and
\* the list of the accepted appliers as they were.
C11_NotAnApplier ==
    [][\A a \in ApplierValues :
           (add_theme_applier(a) /\ ~subclasshook(a)) =>
               /\ b_exc' = "TypeError"
               /\ builder' = builder
               /\ builder'[1]._theme_appliers = builder[1]._theme_appliers
               /\ b_added' = b_added]_vars

\* A function, which has no apply, was handed to add_theme_applier of a
\* builder that has a prompt.
C11_Witness ==
    /\ builder # None
    /\ builder[1]._prompt = Function2
    /\ b_op = [name |-> "add", arg |-> Function1]
    /\ b_exc = "TypeError"
    /\ builder[1]._theme_appliers = <<>>

\* C12: constructing a ThemeSwitcher raises SetupError when the
\* configuration is None, when the theme collection is empty or when the
\* prompt is None, and so does build() on a builder whose prompt was never
\* set.
C12_RequiredFields ==
    /\ \A cfg \in {None, Some("root")}, thm \in {<<>>, themes},
          appliers \in SeqUpTo(Appliers, MaxAppliers),
          prompt \in SwitcherPrompts :
          (cfg = None \/ ~NameMapBool(thm) \/ prompt = PyNone) =>
              /\ ThemeSwitcherInit(cfg, thm, appliers, prompt).exc
                     = "SetupError"
              /\ ThemeSwitcherInit(cfg, thm, appliers, prompt).obj = None
    /\ (switcher # None) =>
          /\ NameMapBool(switcher[1]._themes)
          /\ switcher[1]._prompt # PyNone
    /\ (builder # None /\ b_op.name = "build"
           /\ builder[1]._prompt = PyNone) =>
          /\ b_exc = "SetupError"
          /\ b_ret = None

\* C13: ThemeSwitcherBuilder(config, themes) raises SetupError and leaves
\* no builder when themes is empty, and constructs a builder otherwise, so
\* that the collection of every builder is not empty.
C13_BuilderThemesNotEmpty ==
    /\ [](builder # None => NameMapBool(builder[1]._themes))
    /\ [][\A thm \in {<<>>, themes} :
              NewBuilder(thm) =>
                  IF NameMapBool(thm)
                  THEN b_exc' = "none" /\ builder' # None
                                       /\ builder'[1]._themes = thm
                  ELSE b_exc' = "SetupError" /\ builder' = None]_vars

\* The builder was constructed with an empty collection and does not exist.
C13_Witness ==
    /\ b_op.name = "init"
    /\ b_exc = "SetupError"
    /\ builder = None
    /\ NameMapBool(themes)

\* C14: after any sequence of add() calls every key of the collection is
\* the name of the theme it maps to and no two stored themes share a name;
\* add(theme) with a name that is present raises DuplicateThemeNameError
\* and leaves the collection, its length and the theme stored under the
\* name as they were, and add(theme) with a new name stores the theme under
\* its name.
C14_UniqueNames ==
    /\ [](/\ \A i \in 1..Len(nm) : nm[i].key = nm[i].value.name
          /\ \A i, j \in 1..Len(nm) :
                 nm[i].value.name = nm[j].value.name => i = j)
    /\ [][\A t \in Themes :
              NameMapAdd(t) =>
                  IF \E i \in 1..Len(nm) : nm[i].value.name = t.name
                  THEN /\ nm_exc' = "DuplicateThemeNameError"
                       /\ nm' = nm
                       /\ Len(nm') = Len(nm)
                  ELSE /\ nm_exc' = "none"
                       /\ nm' = Append(nm, [key |-> t.name, value |-> t])
         ]_vars

\* A theme of the second directory was added to a collection that holds
\* the theme of that name of the first directory.
C14_Witness ==
    /\ nm_op.name = "add"
    /\ nm_exc = "DuplicateThemeNameError"
    /\ nm_op.arg[1].path.dir = 2
    /\ \E i \in 1..Len(nm) : /\ nm[i].key = nm_op.arg[1].name
                             /\ nm[i].value.path.dir = 1
    /\ Len(nm) = 2

\* C15: from_unique never raises and returns a collection with one entry
\* for each name of the input, the first theme of the input with that name,
\* in the order of the first occurrences; Base16ThemeNameMap(themes) raises
\* DuplicateThemeNameError and returns no collection when two themes of the
\* input share a name, and returns the collection of all of them otherwise.
C15_FromUnique ==
    LET ts == nm_op.arg
        Names == {ts[i].name : i \in 1..Len(ts)}
        First(n) == CHOOSE i \in 1..Len(ts) :
                        /\ ts[i].name = n
                        /\ \A j \in 1..(i - 1) : ts[j].name # n
        Duplicate == \E i, j \in 1..Len(ts) :
                         i # j /\ ts[i].name = ts[j].name
    IN /\ nm_op.name = "from_unique" =>
              /\ nm_exc = "none"
              /\ nm_ret # None
              /\ Len(nm_ret[1]) = Cardinality(Names)
              /\ \A k \in 1..Len(nm_ret[1]) :
                     /\ nm_ret[1][k].key \in Names
                     /\ nm_ret[1][k].value = ts[First(nm_ret[1][k].key)]
              /\ \A k, l \in 1..Len(nm_ret[1]) :
                     k < l => First(nm_ret[1][k].key) < First(nm_ret[1][l].key)
       /\ nm_op.name = "init" =>
              IF Duplicate
              THEN nm_exc = "DuplicateThemeNameError" /\ nm_ret = None
              ELSE /\ nm_exc = "none"
                   /\ nm_ret # None
                   /\ nm_ret[1] = [i \in 1..Len(ts) |->
                                      [key |-> ts[i].name, value |-> ts[i]]]

\* from_unique was handed three themes, the third with the name of the
\* first, and returned two entries.
C15_Witness ==
    /\ nm_op.name = "from_unique"
    /\ Len(nm_op.arg) = 3
    /\ nm_op.arg[3].name = nm_op.arg[1].name
    /\ nm_op.arg[3] # nm_op.arg[1]
    /\ nm_op.arg[2].name # nm_op.arg[1].name
    /\ Len(nm_ret[1]) = 2

\* C16: every color request is classified. A name outside base00..base0F
\* raises KeyError whether or not the file declares it; a canonical name
\* the file does not declare raises InvalidThemeError 'missing'; a
\* canonical name whose declared value is not a 6-digit hexadecimal color,
\* that is '#' and six hexadecimal digits, raises InvalidThemeError
\* 'invalid'; otherwise the declared value is returned.
C16_LookupClassified ==
    LET name == th_op.arg
        Canonical == {"base00", "base01", "base02", "base03", "base04",
                      "base05", "base06", "base07", "base08", "base09",
                      "base0A", "base0B", "base0C", "base0D", "base0E",
                      "base0F"}
        Decl == {i \in 1..Len(th_file) :
                     th_file[i].kw = "#define" /\ th_file[i].name = name}
        value == th_file[CHOOSE i \in Decl : \A j \in Decl : j <= i].value
        IsColor(v) == /\ Len(v) = 7
                      /\ v[1] = 35
                      /\ \A i \in 2..7 : HexDigit(v[i])
    IN th_op.name = "getitem" =>
           IF name \notin Canonical
           THEN th_exc = [type |-> "KeyError", descr |-> ""]
           ELSE IF Decl = {}
           THEN th_exc = [type |-> "InvalidThemeError", descr |-> "missing"]
           ELSE IF ~IsColor(value)
           THEN th_exc = [type |-> "InvalidThemeError", descr |-> "invalid"]
           ELSE th_exc.type = "none" /\ th_ret = Some(value)

\* C17: the theme file is read at most once over any sequence of color
\* requests, whatever the file holds, and is not read when the theme is
\* constructed or discovered.
C17_ParsedOnce ==
    /\ th_reads <= 1
    /\ th_op.name \in {"init", "find_all_in"} => th_reads = 0

\* C18: write(data) calls the underlying write exactly once when data is
\* not empty or the file exists, and makes no write and raises nothing when
\* data is empty and the file does not exist; an error the underlying
\* write raises leaves write as ConfiguredFileNotFoundError or as
\* ConfiguredPathError.
C18_WriteWhenNeeded ==
    ps_op.name = "write" =>
        /\ (DictBool(ps_op.data) \/ ps_op.existed) => ps_writes = 1
        /\ ~(DictBool(ps_op.data) \/ ps_op.existed) =>
               /\ ps_writes = 0
               /\ ps_exc = "none"
               /\ ~ps_file.exists
        /\ (ps_writes = 1 /\ ps_raised = "none") =>
               /\ ps_exc = "none"
               /\ ps_file = [exists |-> TRUE, data |-> ps_op.data]
        /\ ps_raised # "none" =>
               ps_exc \in {"ConfiguredFileNotFoundError",
                           "ConfiguredPathError"}

\* C19: read returns the content of a file that exists for either value of
\* fallback_to_empty; for a file that does not exist it returns the empty
\* value when fallback_to_empty is true and raises
\* ConfiguredFileNotFoundError otherwise; every other error of the path
\* raises ConfiguredPathError, with fallback_to_empty true as well, and no
\* value is returned then.
C19_ReadFallback ==
    ps_op.name = "read" =>
        /\ (ps_op.existed /\ ps_raised = "none") =>
               ps_exc = "none" /\ ps_ret = Some(ps_file.data)
        /\ ~ps_op.existed =>
               IF ps_op.fallback
               THEN ps_exc = "none" /\ ps_ret = Some(EmptyDict)
               ELSE ps_exc = "ConfiguredFileNotFoundError" /\ ps_ret = None
        /\ (ps_op.existed /\ ps_raised # "none") =>
               ps_exc = "ConfiguredPathError" /\ ps_ret = None

\* C20: no exception of the OS leaves the with block of a path, in read,
\* write or the theme search: FileNotFoundError leaves it as
\* ConfiguredFileNotFoundError, and every other OSError, of a subclass as
\* well, as ConfiguredPathError.
C20_NoRawOSError ==
    /\ ps_raised = "FileNotFoundError" =>
           ps_ctx = "ConfiguredFileNotFoundError"
    /\ ps_raised \in OSErrors \ {"FileNotFoundError"} =>
           ps_ctx = "ConfiguredPathError"
    /\ ps_ctx \notin OSErrors
    /\ ps_exc \notin OSErrors

\* The value the data d holds under the chain of keys.
RECURSIVE DataAt(_, _)
DataAt(d, keys) ==
    IF keys = <<>> THEN d ELSE DataAt(d.val[Head(keys)], Tail(keys))

\* C21: reading a chain of keys k1..kn whose first n-1 keys resolve to
\* nested mappings and whose last key is absent raises ConfigKeyError with
\* a message that names kn and the ancestors of the mapping read followed
\* by k1..k(n-1), joined in that order; reading a chain that is present
\* returns the value of the underlying data, a section as a view of it.
C21_KeyErrorAncestors ==
    LET keys == cf_op.keys
        n == Len(keys)
        d == Freeze(cf_heap, cf_op.view.data)
        Resolves(i) ==
            \A j \in 1..i :
                /\ DataAt(d, SubSeq(keys, 1, j - 1)).kind = "dict"
                /\ keys[j] \in DOMAIN DataAt(d, SubSeq(keys, 1, j - 1)).val
        Sections(i) ==
            /\ Resolves(i)
            /\ \A j \in 1..i : DataAt(d, SubSeq(keys, 1, j)).kind = "dict"
    IN cf_op.name = "get" =>
           /\ (Sections(n - 1) /\ ~Resolves(n)) =>
                  /\ cf_exc = "ConfigKeyError"
                  /\ cf_msg = ConfigKeyMessage(
                                  keys[n],
                                  cf_op.view.ancestors
                                      \o SubSeq(keys, 1, n - 1))
           /\ (Sections(n - 1) /\ Resolves(n)) =>
                  /\ cf_exc = "none"
                  /\ IF DataAt(d, keys).kind = "dict"
                     THEN /\ cf_ret.kind = "view"
                          /\ Freeze(cf_heap, cf_ret.view.data)
                                 = DataAt(d, keys)
                     ELSE cf_ret = RetScalar(DataAt(d, keys).val)

\* A chain of three keys was read from the root: the first two are
\* sections and the last is missing in the second.
C21_Witness ==
    /\ cf_op.name = "get"
    /\ cf_op.view = RootView
    /\ Len(cf_op.keys) = 3
    /\ cf_exc = "ConfigKeyError"
    /\ cf_msg = "A requested configuration option \"theme\" is missing in "
                    \o "root:sec:sec"

\* The keys that lead from the root to the view v, and whether they still
\* lead to a section of the data d of the root.
PathOf(v) == Tail(v.ancestors)
Attached(d, v) ==
    \A j \in 1..Len(PathOf(v)) :
        /\ DataAt(d, SubSeq(PathOf(v), 1, j - 1)).kind = "dict"
        /\ PathOf(v)[j] \in DOMAIN DataAt(d, SubSeq(PathOf(v), 1, j - 1)).val
        /\ DataAt(d, SubSeq(PathOf(v), 1, j)).kind = "dict"

\* C22: the views of a section share its data with the root. Whatever was
\* set and deleted through the views, every view of a section the root
\* still holds observes the entries the root observes there; a value set
\* through a view is read back from the root under the keys of the view,
\* and the data a save() hands to the store holds the entries of every
\* view.
C22_ViewsShareNode ==
    /\ [](\A v \in cf_views :
              Attached(Freeze(cf_heap, 1), v) =>
                  /\ Freeze(cf_heap, v.data)
                         = DataAt(Freeze(cf_heap, 1), PathOf(v))
                  /\ (cf_op.name = "save" /\ cf_writes = 1
                         /\ cf_exc = "none") =>
                         DataAt([kind |-> "dict", val |-> cf_file.data],
                                PathOf(v)) = Freeze(cf_heap, v.data))
    /\ [][\A m \in cf_views, value \in CfScalars :
              (ConfigSetItem(m, "theme", value)
                  /\ Attached(Freeze(cf_heap, 1), m)) =>
                  get_by_key_chain(cf_heap', RootView,
                                   Append(PathOf(m), "theme")).ret
                      = RetScalar(value)]_vars

\* With two views in hand, the theme of the inner section was set through
\* its view to a value it did not have, and the root observes it.
C22_Witness ==
    /\ Cardinality(cf_views) = 2
    /\ cf_op.name = "set"
    /\ cf_op.view = View(3, <<"root", "sec", "sec">>)
    /\ cf_op.val = 1
    /\ Attached(Freeze(cf_heap, 1), cf_op.view)
    /\ DataAt(Freeze(cf_heap, 1), <<"sec", "sec", "theme">>) = Scalar(1)

\* The module names the last discovery found under its prefix and could
\* import, and the module whose import ended the discovery, if any.  The
\* prefix test is spelled out here: name = prefix followed by something.
HasPrefix(name, prefix) == \E k \in 0..Len(name) : SubSeq(name, 1, k) = prefix
Candidates ==
    {i \in DOMAIN pl_modules : HasPrefix(pl_modules[i], pl_op.prefix)}
Loaded == {i \in Candidates : pl_outcome[pl_modules[i]] = "ok"}
Aborting ==
    {i \in Candidates : pl_outcome[pl_modules[i]]
                            \notin {"ok", "ImportError", "ModuleNotFoundError"}}
KeysOfLoaded ==
    UNION {{key \in {SubSeq(m, k, Len(m)) : k \in 1..(Len(m) + 1)} :
               pl_op.prefix \o key = m} :
           m \in {pl_modules[i] : i \in Loaded}}

\* C23 as stated: discovery returns a map whose keys are exactly the
\* prefix-stripped names of the modules that start with the prefix and whose
\* import succeeded, it imports no module without the prefix, and a
\* candidate that fails to load is only skipped.
C23_Original ==
    pl_op.name = "discover" =>
        /\ pl_exc = "none"
        /\ pl_ret # None
        /\ DictKeys(pl_ret[1]) = KeysOfLoaded
        /\ \A i \in DOMAIN pl_imports : HasPrefix(pl_imports[i], pl_op.prefix)

\* C23 (amended): discovery imports no module without the prefix.  When no
\* candidate's import raises anything but ImportError (or a subclass), it
\* returns a map whose keys are exactly the prefix-stripped names of the
\* candidates whose import succeeded, each mapped to its module, and every
\* candidate was imported.  When the import of a candidate raises another
\* exception, that exception leaves discovery and no map is returned.
C23_DiscoverSkipsImportErrors ==
    pl_op.name = "discover" =>
        /\ \A i \in DOMAIN pl_imports : HasPrefix(pl_imports[i], pl_op.prefix)
        /\ IF Aborting = {}
           THEN /\ pl_exc = "none"
                /\ pl_ret # None
                /\ DictKeys(pl_ret[1]) = KeysOfLoaded
                /\ \A j \in DOMAIN pl_ret[1] :
                       pl_ret[1][j].value
                           = Module(pl_op.prefix \o pl_ret[1][j].key)
                /\ {pl_imports[i] : i \in DOMAIN pl_imports}
                       = {pl_modules[i] : i \in Candidates}
           ELSE LET first == CHOOSE i \in Aborting :
                                 \A j \in Aborting : i <= j
                IN /\ pl_exc = pl_outcome[pl_modules[first]]
                   /\ pl_ret = None

\* A candidate whose import raised ImportError came before one that was
\* loaded, next to a module without the prefix.
C23_Witness ==
    /\ pl_op.name = "discover"
    /\ pl_exc = "none"
    /\ pl_ret # None
    /\ \E i, j \in Candidates :
           /\ i < j
           /\ IsImportError(pl_outcome[pl_modules[i]])
           /\ j \in Loaded
           /\ StripPrefix(pl_modules[j], pl_op.prefix) \in DictKeys(pl_ret[1])
    /\ \E i \in DOMAIN pl_modules : i \notin Candidates

\* The plugins that are available to the last activation, the names it was
\* configured with, and the calls of apply_to for the first k of them.
Available ==
    {n \in PluginNames :
        \E i \in DOMAIN pl_modules : pl_modules[i] = B16tsPrefix \o n}
Configured == pl_config.names
FirstCalls(k) ==
    [i \in 1..k |->
        ApplyCall(Module(B16tsPrefix \o Configured[i]), TheBuilder)]

\* Every plugin configured before position k is available and its apply_to
\* returns.
AppliedBefore(k) ==
    \A i \in 1..(k - 1) :
        Configured[i] \in Available /\ pl_behaviour[Configured[i]] = "ok"

C30_TypePreserved ==
    \A k \in DOMAIN Configured :
        /\ pl_op.name = "apply"
        /\ pl_config.kind = "mapping"
        /\ AppliedBefore(k)
        /\ Configured[k] \in Available
        /\ pl_behaviour[Configured[k]] = "ConfigValueError"
        => pl_exc = "ConfigValueError"

\* C27: build() on a builder with a prompt returns a ThemeSwitcher, and a
\* later add_theme_applier on the builder leaves that switcher, its applier
\* list included, as build() returned it.
C27_ImmutableSnapshot ==
    /\ []((builder # None /\ b_op.name = "build"
              /\ builder[1]._prompt # PyNone) => b_ret # None)
    /\ [][\A a \in ApplierValues :
              (add_theme_applier(a) /\ b_ret # None) =>
                  /\ b_ret' = b_ret
                  /\ switcher' = switcher]_vars

\* C28: a value a color request returns is '#' followed by six hexadecimal
\* digits and nothing else, seven characters in all; a request for a color
\* that was last declared as '#ABCDEF12' raises InvalidThemeError 'invalid'.
C28_ExactColor ==
    /\ (th_op.name = "getitem" /\ th_ret # None) =>
           /\ Len(th_ret[1]) = 7
           /\ th_ret[1][1] = 35
           /\ \A i \in 2..Len(th_ret[1]) : HexDigit(th_ret[1][i])
    /\ (/\ th_op.name = "getitem"
        /\ th # None
        /\ th_op.arg \in DOMAIN th[1]._definitions
        /\ th[1]._definitions[th_op.arg] = ColorLong) =>
           /\ th_exc = [type |-> "InvalidThemeError", descr |-> "invalid"]
           /\ th_ret = None

\* The data of the root of the configuration.
RootData == Freeze(cf_heap, 1).val

\* C29 as stated: a configuration loaded from a file that does not exist is
\* empty; save() on it with no entry set before makes no write and leaves
\* the file missing; once an entry has been set, every save() writes.
C29_Original ==
    /\ (cf_op.name = "none" /\ ~cf_file.exists) => ~DictBool(RootData)
    /\ (cf_op.name = "save" /\ ~cf_was_set) =>
           cf_writes = 0 /\ ~cf_file.exists /\ cf_exc = "none"
    /\ (cf_op.name = "save" /\ cf_was_set) => cf_writes = 1

\* C29 (amended): a configuration loaded from a file that does not exist is
\* empty and raises nothing.  save() writes exactly when the data is not
\* empty or the file exists: with empty data and no file it makes no write,
\* raises nothing and leaves the file missing, and a write that succeeds
\* leaves the file holding the data.  The file never disappears, so after a
\* save() that wrote it every save() writes, also when the data is empty.
C29_SaveWritesWhenNeeded ==
    /\ []((cf_op.name = "none" /\ ~cf_file.exists) =>
              ~DictBool(RootData) /\ cf_exc = "none")
    /\ [][ConfigSave =>
              /\ cf_writes' = 1 <=> (DictBool(RootData) \/ cf_file.exists)
              /\ cf_writes' = 0 => (cf_exc' = "none" /\ cf_file' = cf_file)
              /\ (cf_writes' = 1 /\ cf_exc' = "none") =>
                     cf_file' = [exists |-> TRUE, data |-> RootData]]_vars
    /\ [][cf_file.exists => cf_file'.exists]_vars

\* After an entry was set, saved and removed, save() wrote the empty data
\* to the file.
C29_Witness ==
    /\ cf_op.name = "save"
    /\ cf_was_set
    /\ ~DictBool(RootData)
    /\ cf_writes = 1
    /\ cf_exc = "none"
    /\ cf_file = [exists |-> TRUE, data |-> EmptyDict]

====
